---- MODULE Spec2Model ----
(***************************************************************************)
(* State-machine model of the HD avatar creator: the App component's       *)
(* settings and saved-avatar handlers, and the AvatarML, ExportPanel,      *)
(* ReadyPlayerMeAPI and GLBUploader components it renders.                 *)
(*                                                                         *)
(* JavaScript objects are modelled as cells of a heap: a state variable    *)
(* that holds an object holds a reference, so that two variables holding   *)
(* the same object is something the model can express.  An async handler   *)
(* is one action per synchronous segment (from one await to the next).     *)
(***************************************************************************)
EXTENDS Integers, Sequences, FiniteSets, TLC

VARIABLES
    \* ---- App (part_000 82-122)
    heap,               \* reference -> AvatarSettings object
    avatarSettings,     \* reference of the live settings object
    uploadedPhoto,      \* Null or a data URL
    activePreset,       \* Null or "applied"
    user,               \* Null or the authenticated user's id
    savedAvatars,       \* sequence of [id, name, settings (a reference), createdAt]
    showSaveDialog, showLoadDialog,
    avatarName, currentAvatarId,
    generatedAvatarUrl, generatedAvatarId,
    customGLBModel, customModelName,
    \* ---- the persistence collaborator and the handlers awaiting it
    store,              \* set of records [id, userId, name, settings (serialized), createdAt]
    enhancedAvatars,    \* set of records of the enhancedAvatars table
    now,                \* Date.now()
    tasks,              \* sequence of suspended saveAvatar / deleteAvatar / loadSavedAvatars runs
    \* ---- AvatarML (AvatarML.tsx 36-40)
    isAnalyzing, analysisProgress, analysisStage, mlResults, mlRuns,
    \* ---- ExportPanel (ExportPanel.tsx 99-103)
    isExporting, exportProgress, exportStage, exportedFiles, activeExport,
    exportRuns,         \* sequence of suspended handleExport runs
    exported,           \* the onExport calls made, in order
    \* ---- ReadyPlayerMeAPI (ExportPanel.tsx 369-406)
    isGenerating, currentStep, avatarId, avatarUrl, genError, steps,
    genRuns,            \* sequence of suspended generateAvatar runs, oldest first
    genTimer,           \* Null or the pending auto-generate timer
    genStarted,         \* number of generateAvatar runs started so far
    \* ---- GLBUploader (part_001 221-225)
    isUploading, uploadProgress, uploadedModels, selectedFile,
    uploadRuns,         \* sequence of suspended uploadModel runs
    \* ---- TextureEnhancer (TextureEnhancer.tsx 28-34), and App's enhancedTexture
    textureQuality, muscleIntensity, skinDetail, vascularization,
    texGenerating,      \* TextureEnhancer's isGenerating
    generatedTexture,   \* NoId or the object URL of the last blob
    enhancedTexture,    \* App: NoId or the URL handed to onTextureGenerated
    texTimer,           \* None or the pending auto-generate timer's closure
    texRuns,            \* sequence of generateEnhancedTexture runs not yet over
    texStarted,         \* number of generateEnhancedTexture runs started so far
    imageData,          \* the pixels last put on the canvas, at PixelSamples
    \* ---- ImprovedAvatar3D (GLBAvatarViewer.tsx 809-810, 692) and its browser
    webgl,              \* what canvas.getContext does: "context", "null" or "throws"
    webglSupported, renderError,
    hasError,           \* Avatar3DErrorBoundary's state
    probePending,       \* the mount effect of ImprovedAvatar3D has yet to run
    \* ---- history: the handler that ran last, and the number of edits so far
    lastOp, edits

appVars == <<heap, avatarSettings, uploadedPhoto, activePreset, user, savedAvatars,
             showSaveDialog, showLoadDialog, avatarName, currentAvatarId,
             generatedAvatarUrl, generatedAvatarId, customGLBModel, customModelName>>
dbVars == <<store, enhancedAvatars, now, tasks>>
mlVars == <<isAnalyzing, analysisProgress, analysisStage, mlResults, mlRuns>>
exportVars == <<isExporting, exportProgress, exportStage, exportedFiles, activeExport,
                exportRuns, exported>>
genVars == <<isGenerating, currentStep, avatarId, avatarUrl, genError, steps,
             genRuns, genTimer, genStarted>>
uploadVars == <<isUploading, uploadProgress, uploadedModels, selectedFile, uploadRuns>>
texVars == <<textureQuality, muscleIntensity, skinDetail, vascularization, texGenerating,
             generatedTexture, enhancedTexture, texTimer, texRuns, texStarted, imageData>>
viewVars == <<webgl, webglSupported, renderError, hasError, probePending>>
vars == <<appVars, dbVars, mlVars, exportVars, genVars, uploadVars, texVars, viewVars,
          lastOp, edits>>

\* null, for a variable that otherwise holds a string; NoId, for one that holds an
\* avatar id; None, for one that holds a record.
Null == "null"
NoId == 0
None == [none |-> TRUE]

(***************************************************************************)
(* AvatarSettings                                                          *)
(***************************************************************************)
Genders == {"male", "female", "non-binary"}

NumericKeys == {"height", "muscle", "bodyFat", "shoulderWidth", "waistSize",
                "skinTone", "facialStructure", "eyeSize", "noseSize",
                "mouthSize", "hairStyle", "hairColor"}

Keys == NumericKeys \cup {"gender"}

DefaultSettings ==
    [gender |-> "male", height |-> 180, muscle |-> 50, bodyFat |-> 20,
     shoulderWidth |-> 50, waistSize |-> 50, skinTone |-> 50,
     facialStructure |-> 50, eyeSize |-> 50, noseSize |-> 50,
     mouthSize |-> 50, hairStyle |-> 1, hairColor |-> 50]

\* The declared range of each numeric field (the sliders' min and max, the
\* hair style buttons).
RangeMin(key) ==
    CASE key = "height"    -> 170
      [] key = "bodyFat"   -> 5
      [] key = "hairStyle" -> 1
      [] OTHER             -> 0

RangeMax(key) ==
    CASE key = "height"    -> 210
      [] key = "bodyFat"   -> 40
      [] key = "hairStyle" -> 4
      [] OTHER             -> 100

\* The values a control can hand to updateSetting: the model takes the two ends
\* of each slider, every hair style button and every gender button.
ControlValues(key) ==
    CASE key = "gender"    -> Genders
      [] key = "hairStyle" -> RangeMin(key)..RangeMax(key)
      [] OTHER             -> {RangeMin(key), RangeMax(key)}

\* A merge that starts from the defaults and not from prev.
BadMerge(prev, updates) ==
    [k \in Keys |-> IF k \in DOMAIN updates THEN updates[k] ELSE DefaultSettings[k]]

\* A merge in which the previous object's fields win: { ...updates, ...prev }.
MergeUnder(prev, updates) ==
    [k \in Keys |-> IF k \in DOMAIN prev THEN prev[k] ELSE updates[k]]

\* { ...prev, ...updates }
Merge(prev, updates) ==
    [k \in Keys |-> IF k \in DOMAIN updates THEN updates[k] ELSE prev[k]]

\* The AvatarPresets catalog.
AvatarPresetCatalog ==
    [femaleAthletic |->
        [gender |-> "female", height |-> 170, muscle |-> 65, bodyFat |-> 18,
         shoulderWidth |-> 45, waistSize |-> 35, skinTone |-> 50,
         facialStructure |-> 45, eyeSize |-> 55, noseSize |-> 45,
         mouthSize |-> 50, hairStyle |-> 2, hairColor |-> 30],
     femaleCurvy |->
        [gender |-> "female", height |-> 165, muscle |-> 40, bodyFat |-> 25,
         shoulderWidth |-> 40, waistSize |-> 45, skinTone |-> 60,
         facialStructure |-> 50, eyeSize |-> 60, noseSize |-> 40,
         mouthSize |-> 55, hairStyle |-> 3, hairColor |-> 70],
     femaleMuscular |->
        [gender |-> "female", height |-> 175, muscle |-> 80, bodyFat |-> 15,
         shoulderWidth |-> 55, waistSize |-> 30, skinTone |-> 40,
         facialStructure |-> 55, eyeSize |-> 50, noseSize |-> 50,
         mouthSize |-> 45, hairStyle |-> 1, hairColor |-> 20],
     maleAthletic |->
        [gender |-> "male", height |-> 180, muscle |-> 70, bodyFat |-> 12,
         shoulderWidth |-> 65, waistSize |-> 40, skinTone |-> 45,
         facialStructure |-> 60, eyeSize |-> 45, noseSize |-> 55,
         mouthSize |-> 50, hairStyle |-> 1, hairColor |-> 25],
     maleBulky |->
        [gender |-> "male", height |-> 190, muscle |-> 85, bodyFat |-> 18,
         shoulderWidth |-> 75, waistSize |-> 50, skinTone |-> 35,
         facialStructure |-> 70, eyeSize |-> 40, noseSize |-> 60,
         mouthSize |-> 45, hairStyle |-> 2, hairColor |-> 15],
     maleLean |->
        [gender |-> "male", height |-> 175, muscle |-> 55, bodyFat |-> 8,
         shoulderWidth |-> 55, waistSize |-> 35, skinTone |-> 55,
         facialStructure |-> 50, eyeSize |-> 50, noseSize |-> 45,
         mouthSize |-> 50, hairStyle |-> 3, hairColor |-> 60]]

\* currentPresets: the female presets for a female avatar, the male ones otherwise.
CurrentPresets(gender) ==
    IF gender = "female"
    THEN {"femaleAthletic", "femaleCurvy", "femaleMuscular"}
    ELSE {"maleAthletic", "maleBulky", "maleLean"}

\* The bodyPresets catalog: each preset's gender and its settings.
BodyPresetCatalog ==
    ("bodybuilder-male" :>
        [gender |-> "male",
         settings |-> [height |-> 185, muscle |-> 95, bodyFat |-> 8, shoulderWidth |-> 85,
                       waistSize |-> 35, skinTone |-> 45, facialStructure |-> 70, eyeSize |-> 50,
                       noseSize |-> 55, mouthSize |-> 50, hairStyle |-> 2, hairColor |-> 30]]) @@
    ("fitness-female" :>
        [gender |-> "female",
         settings |-> [height |-> 170, muscle |-> 75, bodyFat |-> 15, shoulderWidth |-> 45,
                       waistSize |-> 30, skinTone |-> 55, facialStructure |-> 60, eyeSize |-> 65,
                       noseSize |-> 45, mouthSize |-> 55, hairStyle |-> 3, hairColor |-> 60]]) @@
    ("swimmer-male" :>
        [gender |-> "male",
         settings |-> [height |-> 190, muscle |-> 70, bodyFat |-> 12, shoulderWidth |-> 80,
                       waistSize |-> 40, skinTone |-> 50, facialStructure |-> 55, eyeSize |-> 50,
                       noseSize |-> 50, mouthSize |-> 50, hairStyle |-> 1, hairColor |-> 45]]) @@
    ("crossfit-female" :>
        [gender |-> "female",
         settings |-> [height |-> 165, muscle |-> 85, bodyFat |-> 18, shoulderWidth |-> 55,
                       waistSize |-> 35, skinTone |-> 40, facialStructure |-> 65, eyeSize |-> 55,
                       noseSize |-> 50, mouthSize |-> 50, hairStyle |-> 2, hairColor |-> 25]]) @@
    ("average-male" :>
        [gender |-> "male",
         settings |-> [height |-> 175, muscle |-> 45, bodyFat |-> 22, shoulderWidth |-> 50,
                       waistSize |-> 50, skinTone |-> 50, facialStructure |-> 50, eyeSize |-> 50,
                       noseSize |-> 50, mouthSize |-> 50, hairStyle |-> 2, hairColor |-> 50]]) @@
    ("curvy-female" :>
        [gender |-> "female",
         settings |-> [height |-> 168, muscle |-> 35, bodyFat |-> 28, shoulderWidth |-> 40,
                       waistSize |-> 25, skinTone |-> 60, facialStructure |-> 45, eyeSize |-> 60,
                       noseSize |-> 45, mouthSize |-> 55, hairStyle |-> 4, hairColor |-> 70]]) @@
    ("slim-male" :>
        [gender |-> "male",
         settings |-> [height |-> 180, muscle |-> 25, bodyFat |-> 15, shoulderWidth |-> 35,
                       waistSize |-> 35, skinTone |-> 45, facialStructure |-> 45, eyeSize |-> 55,
                       noseSize |-> 45, mouthSize |-> 50, hairStyle |-> 1, hairColor |-> 40]]) @@
    ("petite-female" :>
        [gender |-> "female",
         settings |-> [height |-> 155, muscle |-> 30, bodyFat |-> 20, shoulderWidth |-> 35,
                       waistSize |-> 35, skinTone |-> 65, facialStructure |-> 40, eyeSize |-> 70,
                       noseSize |-> 40, mouthSize |-> 50, hairStyle |-> 3, hairColor |-> 80]]) @@
    ("executive-male" :>
        [gender |-> "male",
         settings |-> [height |-> 182, muscle |-> 55, bodyFat |-> 18, shoulderWidth |-> 60,
                       waistSize |-> 45, skinTone |-> 50, facialStructure |-> 60, eyeSize |-> 50,
                       noseSize |-> 50, mouthSize |-> 50, hairStyle |-> 2, hairColor |-> 35]]) @@
    ("business-female" :>
        [gender |-> "female",
         settings |-> [height |-> 172, muscle |-> 50, bodyFat |-> 22, shoulderWidth |-> 45,
                       waistSize |-> 40, skinTone |-> 55, facialStructure |-> 55, eyeSize |-> 55,
                       noseSize |-> 50, mouthSize |-> 50, hairStyle |-> 2, hairColor |-> 45]])

(***************************************************************************)
(* The heap of settings objects                                            *)
(***************************************************************************)
\* The references a list of saved avatars holds.
SavedRefs(saved) == {saved[i].settings : i \in DOMAIN saved}

\* A reference no object of h has.
FreshRef(h) == CHOOSE r \in 1..(Cardinality(DOMAIN h) + 1) : r \notin DOMAIN h

\* The objects of h still referenced by the live settings or a saved avatar.
Collect(h, live, saved) == [r \in {live} \cup SavedRefs(saved) |-> h[r]]

\* The live settings object.
Live == heap[avatarSettings]

\* An update that assigns to the fields of the live settings object.
SetAvatarSettingsInPlace(updates) ==
    /\ heap' = [heap EXCEPT ![avatarSettings] = Merge(@, updates)]
    /\ avatarSettings' = avatarSettings

\* setAvatarSettings(prev => ({ ...prev, ...updates })): a new object.
SetAvatarSettingsMerged(updates) ==
    LET r == FreshRef(heap)
    IN  /\ avatarSettings' = r
        /\ heap' = Collect((r :> Merge(Live, updates)) @@ heap, r, savedAvatars)

(***************************************************************************)
(* Bounds                                                                  *)
(***************************************************************************)
\* The number of settings edits, saves and deletes a behaviour makes.
MaxEdits == 2

(***************************************************************************)
(* ReadyPlayerMeAPI: the auto-generate effect                              *)
(***************************************************************************)
\* What a generateAvatar closure holds of the render it was made in: the
\* settings and the photo it reads, and the currentStep its catch block reads.
GenClosure(settings, photo) ==
    [gender |-> settings.gender, muscle |-> settings.muscle,
     bodyFat |-> settings.bodyFat, photo |-> photo, step |-> currentStep]

\* The effect on [settings.gender, settings.muscle, settings.bodyFat], run by the
\* render that follows a change of the settings to next: when one of the three
\* changed, the last run's cleanup clears its timer, and a timer is set unless a
\* generation is under way.
AutoGenerateEffect(next, photo) ==
    /\ genTimer' =
          IF \/ next.gender # Live.gender
             \/ next.muscle # Live.muscle
             \/ next.bodyFat # Live.bodyFat
          THEN IF ~isGenerating THEN GenClosure(next, photo) ELSE None
          ELSE genTimer
    /\ UNCHANGED <<isGenerating, currentStep, avatarId, avatarUrl, genError, steps,
                   genRuns, genStarted>>

(***************************************************************************)
(* TextureEnhancer: the auto-generate effect                               *)
(***************************************************************************)
\* What a generateEnhancedTexture closure holds of the render it was made in.
TexClosure(settings, quality, intensity, detail, vascular) ==
    [muscle |-> settings.muscle, bodyFat |-> settings.bodyFat,
     skinTone |-> settings.skinTone, textureQuality |-> quality,
     muscleIntensity |-> intensity, skinDetail |-> detail,
     vascularization |-> vascular]

\* The effect on [settings.muscle, settings.bodyFat, settings.skinTone,
\* muscleIntensity, skinDetail, vascularization], run by the render that
\* follows a change of the settings to next: when one of the three settings
\* changed, the last run's cleanup clears its timer and a 500 ms timer is set.
TextureEffect(next) ==
    /\ texTimer' =
          IF \/ next.muscle # Live.muscle
             \/ next.bodyFat # Live.bodyFat
             \/ next.skinTone # Live.skinTone
          THEN TexClosure(next, textureQuality, muscleIntensity, skinDetail,
                          vascularization)
          ELSE texTimer
    /\ UNCHANGED <<textureQuality, muscleIntensity, skinDetail, vascularization,
                   texGenerating, generatedTexture, enhancedTexture, texRuns,
                   texStarted, imageData>>

(***************************************************************************)
(* App: settings handlers                                                  *)
(***************************************************************************)
\* updateSetting(key, value), from a slider or a button of the panel.
UpdateSetting(key, value) ==
    /\ edits < MaxEdits
    /\ SetAvatarSettingsMerged([k \in {key} |-> value])
    /\ AutoGenerateEffect(Merge(Live, [k \in {key} |-> value]), uploadedPhoto)
    /\ TextureEffect(Merge(Live, [k \in {key} |-> value]))
    /\ lastOp' = <<"updateSetting">>
    /\ edits' = edits + 1
    /\ UNCHANGED <<uploadedPhoto, activePreset, user, savedAvatars, showSaveDialog,
                   showLoadDialog, avatarName, currentAvatarId, generatedAvatarUrl,
                   generatedAvatarId, customGLBModel, customModelName>>
    /\ UNCHANGED <<dbVars, mlVars, exportVars, uploadVars>>
    /\ UNCHANGED viewVars

\* updateMultipleSettings(updates)
UpdateMultipleSettings(updates) ==
    /\ edits < MaxEdits
    /\ SetAvatarSettingsMerged(updates)
    /\ AutoGenerateEffect(Merge(Live, updates), uploadedPhoto)
    /\ TextureEffect(Merge(Live, updates))
    /\ lastOp' = <<"updateMultipleSettings">>
    /\ edits' = edits + 1
    /\ UNCHANGED <<uploadedPhoto, activePreset, user, savedAvatars, showSaveDialog,
                   showLoadDialog, avatarName, currentAvatarId, generatedAvatarUrl,
                   generatedAvatarId, customGLBModel, customModelName>>
    /\ UNCHANGED <<dbVars, mlVars, exportVars, uploadVars>>
    /\ UNCHANGED viewVars

\* applyPreset(presetSettings)
ApplyPreset(presetSettings) ==
    /\ edits < MaxEdits
    /\ SetAvatarSettingsMerged(presetSettings)
    /\ AutoGenerateEffect(Merge(Live, presetSettings), uploadedPhoto)
    /\ TextureEffect(Merge(Live, presetSettings))
    /\ activePreset' = "applied"
    /\ lastOp' = <<"applyPreset">>
    /\ edits' = edits + 1
    /\ UNCHANGED <<uploadedPhoto, user, savedAvatars, showSaveDialog,
                   showLoadDialog, avatarName, currentAvatarId, generatedAvatarUrl,
                   generatedAvatarId, customGLBModel, customModelName>>
    /\ UNCHANGED <<dbVars, mlVars, exportVars, uploadVars>>
    /\ UNCHANGED viewVars

\* The "Apply Preset" button of a preset card of AvatarPresets.
ClickPreset(name) ==
    /\ name \in CurrentPresets(Live.gender)
    /\ ApplyPreset(AvatarPresetCatalog[name])

\* The "Apply Preset" button of a preset card of BodyPresets:
\* onApplyPreset(preset.settings), with the App's applyPreset as onApplyPreset,
\* as for AvatarPresets.  Every preset is listed under the filters 'all'.
ClickBodyPreset(id) ==
    /\ id \in DOMAIN BodyPresetCatalog
    /\ ApplyPreset(BodyPresetCatalog[id].settings)

\* resetToDefaults (also newAvatar, which only calls it)
ResetToDefaults ==
    /\ edits < MaxEdits
    /\ LET r == FreshRef(heap)
       IN  /\ avatarSettings' = r
           /\ heap' = Collect((r :> DefaultSettings) @@ heap, r, savedAvatars)
    /\ AutoGenerateEffect(DefaultSettings, Null)
    /\ TextureEffect(DefaultSettings)
    /\ uploadedPhoto' = Null
    /\ activePreset' = Null
    /\ currentAvatarId' = NoId
    /\ avatarName' = <<>>
    /\ lastOp' = <<"resetToDefaults">>
    /\ edits' = edits + 1
    /\ UNCHANGED <<user, savedAvatars, showSaveDialog, showLoadDialog,
                   generatedAvatarUrl, generatedAvatarId, customGLBModel, customModelName>>
    /\ UNCHANGED <<dbVars, mlVars, exportVars, uploadVars>>
    /\ UNCHANGED viewVars

\* handlePhotoUpload: the FileReader delivers the data URL of the chosen photo.
HandlePhotoUpload ==
    /\ uploadedPhoto' = "photo"
    /\ lastOp' = <<"handlePhotoUpload">>
    /\ UNCHANGED <<heap, avatarSettings, activePreset, user, savedAvatars, showSaveDialog,
                   showLoadDialog, avatarName, currentAvatarId, generatedAvatarUrl,
                   generatedAvatarId, customGLBModel, customModelName>>
    /\ UNCHANGED <<dbVars, mlVars, exportVars, genVars, uploadVars, edits>>
    /\ UNCHANGED texVars
    /\ UNCHANGED viewVars

(***************************************************************************)
(* Strings                                                                 *)
(***************************************************************************)
\* A string is the sequence of its characters.
RECURSIVE TrimStart(_)
TrimStart(s) == IF s # <<>> /\ Head(s) = " " THEN TrimStart(Tail(s)) ELSE s

RECURSIVE TrimEnd(_)
TrimEnd(s) ==
    IF s # <<>> /\ s[Len(s)] = " " THEN TrimEnd(SubSeq(s, 1, Len(s) - 1)) ELSE s

\* String.prototype.trim
Trim(s) == TrimEnd(TrimStart(s))

(***************************************************************************)
(* The persistence collaborator: blink.db.avatars                          *)
(***************************************************************************)
Users == {"u1", "u2"}

\* limit: 10
ListLimit == 10

\* The order in which JSON.stringify writes the keys of a settings object.
KeyOrder == <<"gender", "height", "muscle", "bodyFat", "shoulderWidth", "waistSize",
              "skinTone", "facialStructure", "eyeSize", "noseSize", "mouthSize",
              "hairStyle", "hairColor">>

\* JSON.stringify(avatarSettings): the key/value pairs in key order.
Stringify(obj) == [i \in DOMAIN KeyOrder |-> <<KeyOrder[i], obj[KeyOrder[i]]>>]

\* JSON.parse(avatar.settings): a new object.
Parse(str) ==
    [k \in {str[i][1] : i \in DOMAIN str} |->
        str[CHOOSE i \in DOMAIN str : str[i][1] = k][2]]

\* The records the store holds when the App starts: ten of u1 and two of u2.
InitialStore ==
    {[id |-> i, userId |-> "u1", name |-> <<"A">>, createdAt |-> i,
      settings |-> Stringify(IF i = 10 THEN AvatarPresetCatalog.maleBulky
                             ELSE DefaultSettings)] : i \in 1..10}
    \cup
    {[id |-> 20 + i, userId |-> "u2", name |-> <<"B">>, createdAt |-> i,
      settings |-> Stringify(AvatarPresetCatalog.femaleAthletic)] : i \in {3, 15}}

\* Date.now() when the App starts.
StartTime == 11

\* Date.now() does not pass this.
MaxTime == 12

\* The number of handlers awaiting the store at a time.
MaxTasks == 1

\* A list that leaves out the where clause.
ListUnfiltered(db, uid) ==
    LET Before(a, b) == \/ a.createdAt > b.createdAt
                        \/ a.createdAt = b.createdAt /\ a.id < b.id
        Rank(r) == Cardinality({q \in db : Before(q, r)}) + 1
        n == IF Cardinality(db) < ListLimit THEN Cardinality(db) ELSE ListLimit
    IN  [i \in 1..n |-> CHOOSE r \in db : Rank(r) = i]

\* list({ where: { userId }, orderBy: { createdAt: 'desc' }, limit: 10 })
ListAvatars(db, uid) ==
    LET S == {r \in db : r.userId = uid}
        Before(a, b) == \/ a.createdAt > b.createdAt
                        \/ a.createdAt = b.createdAt /\ a.id < b.id
        Rank(r) == Cardinality({q \in S : Before(q, r)}) + 1
        n == IF Cardinality(S) < ListLimit THEN Cardinality(S) ELSE ListLimit
    IN  [i \in 1..n |-> CHOOSE r \in S : Rank(r) = i]

\* The reference of the object parsed for entry i of a list: the i-th reference
\* that is not the live settings object's.
ParsedRef(i) == IF i < avatarSettings THEN i ELSE i + 1

\* setSavedAvatars(parsedAvatars), for the avatars a list call returned.
SetSavedAvatars(avatars) ==
    /\ savedAvatars' =
          [i \in DOMAIN avatars |->
              [id |-> avatars[i].id, name |-> avatars[i].name,
               settings |-> ParsedRef(i), createdAt |-> avatars[i].createdAt]]
    /\ heap' =
          [r \in {avatarSettings} \cup {ParsedRef(i) : i \in DOMAIN avatars} |->
              IF r = avatarSettings THEN Live
              ELSE Parse(avatars[CHOOSE i \in DOMAIN avatars : ParsedRef(i) = r].settings)]

\* A sequence without its element i.
Without(seq, i) ==
    [j \in 1..(Len(seq) - 1) |-> IF j < i THEN seq[j] ELSE seq[j + 1]]

(***************************************************************************)
(* App: authentication and the saved-avatar handlers                       *)
(***************************************************************************)
\* The editor (and every component in it) is rendered for an authenticated user.
EditorShown == user # Null

\* The onAuthStateChanged callback with state.user = u, for a user signing in:
\* setUser, and the effect on user?.id, which calls loadSavedAvatars up to its
\* await of list.  The editor mounts, and with it ReadyPlayerMeAPI and
\* TextureEnhancer, whose auto-generate effects set their timers, and
\* ImprovedAvatar3D, whose mount effect is yet to run.
OnAuthStateChanged(u) ==
    /\ user = Null
    /\ u # Null
    /\ Len(tasks) < MaxTasks
    /\ user' = u
    /\ tasks' = Append(tasks, [op |-> "load", pc |-> "list", uid |-> u])
    /\ genTimer' = GenClosure(Live, uploadedPhoto)
    /\ lastOp' = <<"onAuthStateChanged">>
    /\ UNCHANGED <<heap, avatarSettings, uploadedPhoto, activePreset, savedAvatars,
                   showSaveDialog, showLoadDialog, avatarName, currentAvatarId,
                   generatedAvatarUrl, generatedAvatarId, customGLBModel, customModelName>>
    /\ UNCHANGED <<store, enhancedAvatars, now, mlVars, exportVars, uploadVars, edits>>
    /\ UNCHANGED <<isGenerating, currentStep, avatarId, avatarUrl, genError, steps,
                   genRuns, genStarted>>
    /\ texTimer' = TexClosure(Live, textureQuality, muscleIntensity, skinDetail,
                            vascularization)
    /\ UNCHANGED <<textureQuality, muscleIntensity, skinDetail, vascularization,
                   texGenerating, generatedTexture, enhancedTexture, texRuns,
                   texStarted, imageData>>
    /\ probePending' = TRUE
    /\ UNCHANGED <<webgl, webglSupported, renderError, hasError>>

\* The onAuthStateChanged callback with state.user = null, after the Sign Out
\* button's blink.auth.logout(): setUser(null).  The App renders the sign-in
\* screen, the editor's components unmount (their state is gone and the
\* auto-generate timer is cleared); the handlers of the App that await the store
\* stay suspended.  The components' own runs are taken to be over.
OnSignedOut ==
    /\ user # Null
    /\ mlRuns = <<>> /\ exportRuns = <<>> /\ genRuns = <<>> /\ uploadRuns = <<>>
    /\ user' = Null
    /\ isAnalyzing' = FALSE /\ analysisProgress' = 0 /\ analysisStage' = ""
    /\ mlResults' = None
    /\ isExporting' = FALSE /\ exportProgress' = 0 /\ exportStage' = ""
    /\ exportedFiles' = <<>> /\ activeExport' = Null
    /\ isGenerating' = FALSE /\ currentStep' = 0 /\ avatarId' = NoId
    /\ avatarUrl' = None /\ genError' = Null
    /\ steps' = [i \in DOMAIN steps |-> "pending"]
    /\ genTimer' = None
    /\ isUploading' = FALSE /\ uploadProgress' = 0 /\ uploadedModels' = <<>>
    /\ selectedFile' = None
    /\ lastOp' = <<"onSignedOut">>
    /\ UNCHANGED <<heap, avatarSettings, uploadedPhoto, activePreset, savedAvatars,
                   showSaveDialog, showLoadDialog, avatarName, currentAvatarId,
                   generatedAvatarUrl, generatedAvatarId, customGLBModel, customModelName>>
    /\ UNCHANGED <<dbVars, mlRuns, exportRuns, exported, genRuns, genStarted, uploadRuns,
                   edits>>
    /\ texRuns = <<>>
    /\ textureQuality' = 1024 /\ muscleIntensity' = 50 /\ skinDetail' = 70
    /\ vascularization' = 30 /\ texGenerating' = FALSE /\ generatedTexture' = NoId
    /\ texTimer' = None /\ imageData' = <<>>
    /\ UNCHANGED <<enhancedTexture, texRuns, texStarted>>
    /\ webglSupported' = TRUE /\ renderError' = Null /\ hasError' = FALSE
    /\ probePending' = FALSE
    /\ UNCHANGED webgl

\* Time passes.
Tick ==
    /\ now < MaxTime
    /\ now' = now + 1
    /\ UNCHANGED <<appVars, store, enhancedAvatars, tasks, mlVars, exportVars, genVars,
                   uploadVars, lastOp, edits>>
    /\ UNCHANGED texVars
    /\ UNCHANGED viewVars

\* The save and load dialogs open and close (onOpenChange, the Cancel button).
SetShowSaveDialog(open) ==
    /\ showSaveDialog' = open
    /\ lastOp' = <<"setShowSaveDialog">>
    /\ UNCHANGED <<heap, avatarSettings, uploadedPhoto, activePreset, user, savedAvatars,
                   showLoadDialog, avatarName, currentAvatarId, generatedAvatarUrl,
                   generatedAvatarId, customGLBModel, customModelName>>
    /\ UNCHANGED <<dbVars, mlVars, exportVars, genVars, uploadVars, edits>>
    /\ UNCHANGED texVars
    /\ UNCHANGED viewVars

SetShowLoadDialog(open) ==
    /\ showLoadDialog' = open
    /\ lastOp' = <<"setShowLoadDialog">>
    /\ UNCHANGED <<heap, avatarSettings, uploadedPhoto, activePreset, user, savedAvatars,
                   showSaveDialog, avatarName, currentAvatarId, generatedAvatarUrl,
                   generatedAvatarId, customGLBModel, customModelName>>
    /\ UNCHANGED <<dbVars, mlVars, exportVars, genVars, uploadVars, edits>>
    /\ UNCHANGED texVars
    /\ UNCHANGED viewVars

\* The name input of the save dialog.
SetAvatarName(name) ==
    /\ showSaveDialog
    /\ avatarName' = name
    /\ lastOp' = <<"setAvatarName">>
    /\ UNCHANGED <<heap, avatarSettings, uploadedPhoto, activePreset, user, savedAvatars,
                   showSaveDialog, showLoadDialog, currentAvatarId, generatedAvatarUrl,
                   generatedAvatarId, customGLBModel, customModelName>>
    /\ UNCHANGED <<dbVars, mlVars, exportVars, genVars, uploadVars, edits>>
    /\ UNCHANGED texVars
    /\ UNCHANGED viewVars

\* A saveAvatar that creates a record whether or not an avatar is current.
SaveAvatarStartAlwaysCreates ==
    /\ showSaveDialog
    /\ user # Null /\ Trim(avatarName) # <<>>
    /\ Len(tasks) < MaxTasks
    /\ edits < MaxEdits
    /\ edits' = edits + 1
    /\ tasks' = Append(tasks,
            [op |-> "save", pc |-> "create", uid |-> user,
             data |-> [id |-> now, userId |-> user, name |-> Trim(avatarName),
                       settings |-> Stringify(Live)],
             current |-> currentAvatarId])
    /\ lastOp' = <<"saveAvatar">>
    /\ UNCHANGED <<appVars, store, enhancedAvatars, now, mlVars, exportVars, genVars,
                   uploadVars>>
    /\ UNCHANGED texVars
    /\ UNCHANGED viewVars

\* saveAvatar up to its await of update or create.  The Save button is in the
\* save dialog and is disabled for a blank name.
SaveAvatarStart ==
    /\ showSaveDialog
    /\ Trim(avatarName) # <<>>
    /\ user # Null /\ Trim(avatarName) # <<>>
    /\ Len(tasks) < MaxTasks
    /\ edits < MaxEdits
    /\ edits' = edits + 1
    /\ LET avatarData ==
              [id |-> IF currentAvatarId # NoId THEN currentAvatarId ELSE now,
               userId |-> user,
               name |-> Trim(avatarName),
               settings |-> Stringify(Live)]
       IN  tasks' = Append(tasks,
                [op |-> "save",
                 pc |-> IF currentAvatarId # NoId THEN "update" ELSE "create",
                 uid |-> user, data |-> avatarData, current |-> currentAvatarId])
    /\ lastOp' = <<"saveAvatar">>
    /\ UNCHANGED <<appVars, store, enhancedAvatars, now, mlVars, exportVars, genVars,
                   uploadVars>>
    /\ UNCHANGED texVars
    /\ UNCHANGED viewVars

\* loadAvatar(avatar), from the load dialog: the live settings become the saved
\* avatar's settings object itself.
LoadAvatar(i) ==
    /\ showLoadDialog
    /\ i \in DOMAIN savedAvatars
    /\ edits < MaxEdits
    /\ avatarSettings' = savedAvatars[i].settings
    /\ heap' = Collect(heap, savedAvatars[i].settings, savedAvatars)
    /\ currentAvatarId' = savedAvatars[i].id
    /\ avatarName' = savedAvatars[i].name
    /\ showLoadDialog' = FALSE
    /\ AutoGenerateEffect(heap[savedAvatars[i].settings], uploadedPhoto)
    /\ TextureEffect(heap[savedAvatars[i].settings])
    /\ lastOp' = <<"loadAvatar">>
    /\ edits' = edits + 1
    /\ UNCHANGED <<uploadedPhoto, activePreset, user, savedAvatars, showSaveDialog,
                   generatedAvatarUrl, generatedAvatarId, customGLBModel, customModelName>>
    /\ UNCHANGED <<dbVars, mlVars, exportVars, uploadVars>>
    /\ UNCHANGED viewVars

\* deleteAvatar(avatarId, avatarName) up to its await of delete, the user having
\* confirmed.  (Declining the confirm dialog returns at once.)
DeleteAvatarStart(i) ==
    /\ showLoadDialog
    /\ i \in DOMAIN savedAvatars
    /\ Len(tasks) < MaxTasks
    /\ edits < MaxEdits
    /\ edits' = edits + 1
    /\ tasks' = Append(tasks,
            [op |-> "delete", pc |-> "delete", uid |-> user,
             id |-> savedAvatars[i].id, current |-> currentAvatarId])
    /\ lastOp' = <<"deleteAvatar">>
    /\ UNCHANGED <<appVars, store, enhancedAvatars, now, mlVars, exportVars, genVars,
                   uploadVars>>
    /\ UNCHANGED texVars
    /\ UNCHANGED viewVars

\* A catch block that keeps the id of the avatar whose create was rejected.
TaskThrowsOptimistic(i) ==
    /\ i \in DOMAIN tasks
    /\ LET task == tasks[i]
       IN  /\ tasks' = Without(tasks, i)
           /\ IF task.pc = "list" /\ task.op = "save"
              THEN /\ showSaveDialog' = FALSE
                   /\ avatarName' = <<>>
                   /\ UNCHANGED currentAvatarId
              ELSE IF task.pc = "list" /\ task.op = "delete" /\ task.current = task.id
              THEN /\ currentAvatarId' = NoId
                   /\ avatarName' = <<>>
                   /\ UNCHANGED showSaveDialog
              ELSE IF task.pc = "create"
              THEN /\ currentAvatarId' = task.data.id
                   /\ UNCHANGED <<showSaveDialog, avatarName>>
              ELSE UNCHANGED <<showSaveDialog, avatarName, currentAvatarId>>
           /\ lastOp' = <<task.op, task.pc, "throws">>
    /\ UNCHANGED <<heap, avatarSettings, uploadedPhoto, activePreset, user, savedAvatars,
                   showLoadDialog, generatedAvatarUrl, generatedAvatarId,
                   customGLBModel, customModelName>>
    /\ UNCHANGED <<store, enhancedAvatars, now, mlVars, exportVars, genVars, uploadVars, edits>>
    /\ UNCHANGED texVars
    /\ UNCHANGED viewVars

\* The store rejects the call task i awaits: the handler's catch block runs.  A
\* list that throws is caught inside loadSavedAvatars, and the caller goes on.
TaskThrows(i) ==
    /\ i \in DOMAIN tasks
    /\ LET task == tasks[i]
       IN  /\ tasks' = Without(tasks, i)
           /\ IF task.pc = "list" /\ task.op = "save"
              THEN /\ showSaveDialog' = FALSE
                   /\ avatarName' = <<>>
                   /\ UNCHANGED currentAvatarId
              ELSE IF task.pc = "list" /\ task.op = "delete" /\ task.current = task.id
              THEN /\ currentAvatarId' = NoId
                   /\ avatarName' = <<>>
                   /\ UNCHANGED showSaveDialog
              ELSE UNCHANGED <<showSaveDialog, avatarName, currentAvatarId>>
           /\ lastOp' = <<task.op, task.pc, "throws">>
    /\ UNCHANGED <<heap, avatarSettings, uploadedPhoto, activePreset, user, savedAvatars,
                   showLoadDialog, generatedAvatarUrl, generatedAvatarId,
                   customGLBModel, customModelName>>
    /\ UNCHANGED <<store, enhancedAvatars, now, mlVars, exportVars, genVars, uploadVars, edits>>
    /\ UNCHANGED texVars
    /\ UNCHANGED viewVars

\* create(avatarData) returns: setCurrentAvatarId, then loadSavedAvatars up to
\* its await of list.  The store holds one record per id.
CreateReturns(i) ==
    /\ i \in DOMAIN tasks
    /\ tasks[i].pc = "create"
    /\ \A r \in store : r.id # tasks[i].data.id
    /\ store' = store \cup
          {[id |-> tasks[i].data.id, userId |-> tasks[i].data.userId,
            name |-> tasks[i].data.name, settings |-> tasks[i].data.settings,
            createdAt |-> now]}
    /\ currentAvatarId' = tasks[i].data.id
    /\ tasks' = [tasks EXCEPT ![i].pc = "list"]
    /\ lastOp' = <<"createReturns">>
    /\ UNCHANGED <<heap, avatarSettings, uploadedPhoto, activePreset, user, savedAvatars,
                   showSaveDialog, showLoadDialog, avatarName, generatedAvatarUrl,
                   generatedAvatarId, customGLBModel, customModelName>>
    /\ UNCHANGED <<enhancedAvatars, now, mlVars, exportVars, genVars, uploadVars, edits>>
    /\ UNCHANGED texVars
    /\ UNCHANGED viewVars

\* update(currentAvatarId, avatarData) returns: loadSavedAvatars up to its await
\* of list.
UpdateReturns(i) ==
    /\ i \in DOMAIN tasks
    /\ tasks[i].pc = "update"
    /\ \E r \in store : r.id = tasks[i].current
    /\ store' =
          {IF r.id = tasks[i].current
           THEN [r EXCEPT !.userId = tasks[i].data.userId, !.name = tasks[i].data.name,
                          !.settings = tasks[i].data.settings]
           ELSE r : r \in store}
    /\ tasks' = [tasks EXCEPT ![i].pc = "list"]
    /\ lastOp' = <<"updateReturns">>
    /\ UNCHANGED <<appVars, enhancedAvatars, now, mlVars, exportVars, genVars, uploadVars,
                   edits>>
    /\ UNCHANGED texVars
    /\ UNCHANGED viewVars

\* delete(avatarId) returns: loadSavedAvatars up to its await of list.
DeleteReturns(i) ==
    /\ i \in DOMAIN tasks
    /\ tasks[i].pc = "delete"
    /\ store' = {r \in store : r.id # tasks[i].id}
    /\ tasks' = [tasks EXCEPT ![i].pc = "list"]
    /\ lastOp' = <<"deleteReturns">>
    /\ UNCHANGED <<appVars, enhancedAvatars, now, mlVars, exportVars, genVars, uploadVars,
                   edits>>
    /\ UNCHANGED texVars
    /\ UNCHANGED viewVars

\* list(...) returns to loadSavedAvatars: setSavedAvatars, and then the rest of
\* the handler that called loadSavedAvatars.
ListReturns(i) ==
    /\ i \in DOMAIN tasks
    /\ tasks[i].pc = "list"
    /\ SetSavedAvatars(ListAvatars(store, tasks[i].uid))
    /\ LET task == tasks[i]
       IN  IF task.op = "save"
           THEN /\ showSaveDialog' = FALSE
                /\ avatarName' = <<>>
                /\ UNCHANGED currentAvatarId
           ELSE IF task.op = "delete" /\ task.current = task.id
           THEN /\ currentAvatarId' = NoId
                /\ avatarName' = <<>>
                /\ UNCHANGED showSaveDialog
           ELSE UNCHANGED <<showSaveDialog, avatarName, currentAvatarId>>
    /\ tasks' = Without(tasks, i)
    /\ lastOp' = <<tasks[i].op, "list", "returns">>
    /\ UNCHANGED <<avatarSettings, uploadedPhoto, activePreset, user, showLoadDialog,
                   generatedAvatarUrl, generatedAvatarId, customGLBModel, customModelName>>
    /\ UNCHANGED <<store, enhancedAvatars, now, mlVars, exportVars, genVars, uploadVars, edits>>
    /\ UNCHANGED texVars
    /\ UNCHANGED viewVars

(***************************************************************************)
(* AvatarML: the simulated photo analysis                                  *)
(***************************************************************************)
\* Math.random(), in thousandths: a value of [0, 1).
RandomSamples == {0, 999}

\* Math.round of a non-negative value given in thousandths.
Round(milli) == (milli + 500) \div 1000

\* The stages of analyzePhoto, each with the progress it sets.
AnalysisStages ==
    <<[stage |-> "Detecting facial features...", progress |-> 20],
      [stage |-> "Analyzing facial structure...", progress |-> 40],
      [stage |-> "Estimating body proportions...", progress |-> 60],
      [stage |-> "Analyzing skin tone and texture...", progress |-> 80],
      [stage |-> "Generating recommendations...", progress |-> 100]>>

\* The simulated results (in thousandths) for the draws rf, rs, rh, rm of
\* Math.random(): rf for the facial features, rs for the skin tone, rh for the
\* height and rm for the muscle potential.
AnalysisResults(rf, rs, rh, rm) ==
    [eyeSize |-> rf * 40 + 30000,
     noseSize |-> rf * 40 + 30000,
     mouthSize |-> rf * 40 + 30000,
     facialStructure |-> rf * 60 + 20000,
     estimatedHeight |-> rh * 30 + 165000,
     musclePotential |-> rm * 60 + 20000,
     skinTone |-> rs * 80 + 10000]

\* The updates applyMLResults hands to onSettingsUpdate.
MLUpdates(results) ==
    [eyeSize |-> Round(results.eyeSize),
     noseSize |-> Round(results.noseSize),
     mouthSize |-> Round(results.mouthSize),
     facialStructure |-> Round(results.facialStructure),
     height |-> Round(results.estimatedHeight),
     skinTone |-> Round(results.skinTone),
     muscle |-> Round(results.musclePotential)]

\* The "Start AI Analysis" button is rendered for a photo with no results and no
\* analysis under way.
AnalyzeButtonShown == uploadedPhoto # Null /\ mlResults = None /\ ~isAnalyzing

\* analyzePhoto up to its first await.
AnalyzePhotoStart ==
    /\ user # Null
    /\ AnalyzeButtonShown
    /\ uploadedPhoto # Null
    /\ isAnalyzing' = TRUE
    /\ analysisStage' = AnalysisStages[1].stage
    /\ analysisProgress' = AnalysisStages[1].progress
    /\ mlRuns' = Append(mlRuns, 1)
    /\ lastOp' = <<"analyzePhoto">>
    /\ UNCHANGED <<mlResults, appVars, dbVars, exportVars, genVars, uploadVars, edits>>
    /\ UNCHANGED texVars
    /\ UNCHANGED viewVars

\* analyzePhoto resumes from the await of stage i and enters the next stage.
AnalyzePhotoStage(i) ==
    /\ i \in DOMAIN mlRuns
    /\ mlRuns[i] < Len(AnalysisStages)
    /\ analysisStage' = AnalysisStages[mlRuns[i] + 1].stage
    /\ analysisProgress' = AnalysisStages[mlRuns[i] + 1].progress
    /\ mlRuns' = [mlRuns EXCEPT ![i] = @ + 1]
    /\ lastOp' = <<"analyzePhoto">>
    /\ UNCHANGED <<isAnalyzing, mlResults, appVars, dbVars, exportVars, genVars,
                   uploadVars, edits>>
    /\ UNCHANGED texVars
    /\ UNCHANGED viewVars

\* analyzePhoto resumes from its last await: the results, then the finally block.
AnalyzePhotoFinish(i, rf, rs, rh, rm) ==
    /\ i \in DOMAIN mlRuns
    /\ mlRuns[i] = Len(AnalysisStages)
    /\ mlResults' = AnalysisResults(rf, rs, rh, rm)
    /\ analysisStage' = "Analysis complete!"
    /\ isAnalyzing' = FALSE
    /\ mlRuns' = Without(mlRuns, i)
    /\ lastOp' = <<"analyzePhotoDone">>
    /\ UNCHANGED <<analysisProgress, appVars, dbVars, exportVars, genVars, uploadVars, edits>>
    /\ UNCHANGED texVars
    /\ UNCHANGED viewVars

\* applyMLResults
ApplyMLResults ==
    /\ user # Null
    /\ mlResults # None
    /\ UpdateMultipleSettings(MLUpdates(mlResults))

(***************************************************************************)
(* ExportPanel: the simulated export                                       *)
(***************************************************************************)
\* The number of exports a behaviour starts.
MaxExports == 2

\* exportFormats: the format and quality of each format id.
ExportFormats ==
    [pngHd |-> [id |-> "png-hd", format |-> "PNG", quality |-> "HD"],
     png4k |-> [id |-> "png-4k", format |-> "PNG", quality |-> "4K"],
     jpgHd |-> [id |-> "jpg-hd", format |-> "JPG", quality |-> "HD"],
     glb3d |-> [id |-> "glb-3d", format |-> "GLB", quality |-> "HD"],
     fbx3d |-> [id |-> "fbx-3d", format |-> "FBX", quality |-> "HD"],
     obj3d |-> [id |-> "obj-3d", format |-> "OBJ", quality |-> "HD"]]

\* Stages whose second and third progress values are exchanged.
ExportStagesOutOfOrder(format) ==
    <<[stage |-> "Preparing 3D scene...", progress |-> 20],
      [stage |-> "Processing avatar geometry...", progress |-> 60],
      [stage |-> "Applying HD textures...", progress |-> 40],
      [stage |-> "Encoding 3D model...", progress |-> 80],
      [stage |-> "Finalizing export...", progress |-> 100]>>

\* The stages of handleExport for a format, each with the progress it sets.
ExportStages(format) ==
    <<[stage |-> "Preparing 3D scene...", progress |-> 20],
      [stage |-> "Processing avatar geometry...", progress |-> 40],
      [stage |-> "Applying HD textures...", progress |-> 60],
      [stage |-> IF format.format = "PNG" \/ format.format = "JPG"
                 THEN "Rendering high-quality image..."
                 ELSE "Encoding 3D model...",
       progress |-> 80],
      [stage |-> "Finalizing export...", progress |-> 100]>>

\* An export button that stays enabled.
ExportButtonNeverDisabled == FALSE

\* disabled={isExporting}, on the export button of every format.
ExportButtonDisabled == isExporting

\* handleExport(format) up to its first await.
HandleExportStart(f) ==
    /\ EditorShown
    /\ ~ExportButtonDisabled
    /\ Len(exported) + Len(exportRuns) < MaxExports
    /\ isExporting' = TRUE
    /\ activeExport' = ExportFormats[f].id
    /\ exportStage' = ExportStages(ExportFormats[f])[1].stage
    /\ exportProgress' = ExportStages(ExportFormats[f])[1].progress
    /\ exportRuns' = Append(exportRuns,
            [format |-> ExportFormats[f], stage |-> 1, gender |-> Live.gender])
    /\ lastOp' = <<"handleExport">>
    /\ UNCHANGED <<exportedFiles, exported, appVars, dbVars, mlVars, genVars,
                   uploadVars, edits>>
    /\ UNCHANGED texVars
    /\ UNCHANGED viewVars

\* handleExport resumes from the await of a stage and enters the next stage.
HandleExportStage(i) ==
    /\ i \in DOMAIN exportRuns
    /\ exportRuns[i].stage < Len(ExportStages(exportRuns[i].format))
    /\ LET next == exportRuns[i].stage + 1
       IN  /\ exportStage' = ExportStages(exportRuns[i].format)[next].stage
           /\ exportProgress' = ExportStages(exportRuns[i].format)[next].progress
           /\ exportRuns' = [exportRuns EXCEPT ![i].stage = next]
    /\ lastOp' = <<"handleExport">>
    /\ UNCHANGED <<isExporting, activeExport, exportedFiles, exported, appVars, dbVars,
                   mlVars, genVars, uploadVars, edits>>
    /\ UNCHANGED texVars
    /\ UNCHANGED viewVars

\* handleExport resumes from its last await: the file, the onExport call, and
\* the finally block.
HandleExportFinish(i) ==
    /\ i \in DOMAIN exportRuns
    /\ exportRuns[i].stage = Len(ExportStages(exportRuns[i].format))
    /\ exportedFiles' = Append(exportedFiles,
            [id |-> exportRuns[i].format.id,
             name |-> <<"avatar", exportRuns[i].gender, exportRuns[i].format.format>>])
    /\ exported' = Append(exported,
            [format |-> exportRuns[i].format.id,
             options |-> [quality |-> exportRuns[i].format.quality,
                          format |-> exportRuns[i].format.format]])
    /\ isExporting' = FALSE
    /\ activeExport' = Null
    /\ exportStage' = ""
    /\ exportProgress' = 0
    /\ exportRuns' = Without(exportRuns, i)
    /\ lastOp' = <<"handleExportDone">>
    /\ UNCHANGED <<appVars, dbVars, mlVars, genVars, uploadVars, edits>>
    /\ UNCHANGED texVars
    /\ UNCHANGED viewVars

(***************************************************************************)
(* ReadyPlayerMeAPI: the generation run                                    *)
(***************************************************************************)
\* The number of generation runs a behaviour starts.
MaxGenerations == 2

\* The ids of the five steps, in the order of the step list.
GenStepIds == <<"init", "photo", "customize", "enhance", "finalize">>

\* The index of a step id in steps.
StepIndex(stepId) == CHOOSE i \in DOMAIN GenStepIds : GenStepIds[i] = stepId

\* updateStepStatus(stepId, status), applied to the step list s.
UpdateStepStatus(s, stepId, status) == [s EXCEPT ![StepIndex(stepId)] = status]

\* generateAvatar up to its first await, with the closure of the render it was
\* made in.
GenerateAvatarStart(closure) ==
    /\ genStarted < MaxGenerations
    /\ isGenerating' = TRUE
    /\ genError' = Null
    /\ currentStep' = 0
    /\ steps' = UpdateStepStatus([i \in DOMAIN steps |-> "pending"], "init", "processing")
    /\ genRuns' = Append(genRuns,
            [id |-> genStarted + 1, pc |-> "init", gender |-> closure.gender,
             muscle |-> closure.muscle, bodyFat |-> closure.bodyFat,
             photo |-> closure.photo, step |-> closure.step])
    /\ genStarted' = genStarted + 1
    /\ UNCHANGED <<avatarId, avatarUrl>>

\* disabled={isGenerating}, on the "Generate New Avatar" button.
GenerateButtonDisabled == isGenerating

\* The "Generate New Avatar" button.
ClickGenerate ==
    /\ EditorShown
    /\ ~GenerateButtonDisabled
    /\ GenerateAvatarStart(GenClosure(Live, uploadedPhoto))
    /\ lastOp' = <<"clickGenerate">>
    /\ UNCHANGED <<genTimer, appVars, dbVars, mlVars, exportVars, uploadVars, edits>>
    /\ UNCHANGED texVars
    /\ UNCHANGED viewVars

\* The auto-generate timer fires, 1000 ms after the effect set it.
GenTimerFires ==
    /\ genTimer # None
    /\ GenerateAvatarStart(genTimer)
    /\ genTimer' = None
    /\ lastOp' = <<"genTimerFires">>
    /\ UNCHANGED <<appVars, dbVars, mlVars, exportVars, uploadVars, edits>>
    /\ UNCHANGED texVars
    /\ UNCHANGED viewVars

\* The run i resumes from the await of a simulated step and runs to the next
\* await.
GenerateAvatarStep(i) ==
    /\ i \in DOMAIN genRuns
    /\ LET run == genRuns[i]
       IN  \/ /\ run.pc = "init"
              /\ run.photo # Null
              /\ steps' = UpdateStepStatus(UpdateStepStatus(steps, "init", "completed"),
                                           "photo", "processing")
              /\ currentStep' = 1
              /\ genRuns' = [genRuns EXCEPT ![i].pc = "photo"]
           \/ /\ run.pc = "init"
              /\ run.photo = Null
              /\ steps' = UpdateStepStatus(UpdateStepStatus(UpdateStepStatus(
                              steps, "init", "completed"),
                              "photo", "completed"), "customize", "processing")
              /\ currentStep' = 2
              /\ genRuns' = [genRuns EXCEPT ![i].pc = "customize"]
           \/ /\ run.pc = "photo"
              /\ steps' = UpdateStepStatus(UpdateStepStatus(steps, "photo", "completed"),
                                           "customize", "processing")
              /\ currentStep' = 2
              /\ genRuns' = [genRuns EXCEPT ![i].pc = "customize"]
           \/ /\ run.pc = "customize"
              /\ steps' = UpdateStepStatus(UpdateStepStatus(steps, "customize", "completed"),
                                           "enhance", "processing")
              /\ currentStep' = 3
              /\ genRuns' = [genRuns EXCEPT ![i].pc = "enhance"]
           \/ /\ run.pc = "enhance"
              /\ steps' = UpdateStepStatus(UpdateStepStatus(steps, "enhance", "completed"),
                                           "finalize", "processing")
              /\ currentStep' = 4
              /\ genRuns' = [genRuns EXCEPT ![i].pc = "finalize"]
    /\ lastOp' = <<"generateAvatar">>
    /\ UNCHANGED <<isGenerating, avatarId, avatarUrl, genError, genTimer, genStarted>>
    /\ UNCHANGED <<appVars, dbVars, mlVars, exportVars, uploadVars, edits>>
    /\ UNCHANGED texVars
    /\ UNCHANGED viewVars

\* The URL generateAvatar makes for the run: the id and the muscle and body fat
\* of its closure.
GeneratedAvatarUrl(run) ==
    [id |-> run.id, muscleDefinition |-> run.muscle, bodyFat |-> run.bodyFat]

\* The run i resumes from the await of the last simulated step: the avatar id
\* and URL, and on to the await of blink.auth.me().
GenerateAvatarFinalize(i) ==
    /\ i \in DOMAIN genRuns
    /\ genRuns[i].pc = "finalize"
    /\ avatarId' = genRuns[i].id
    /\ avatarUrl' = GeneratedAvatarUrl(genRuns[i])
    /\ steps' = UpdateStepStatus(steps, "finalize", "completed")
    /\ genRuns' = [genRuns EXCEPT ![i].pc = "me"]
    /\ lastOp' = <<"generateAvatar">>
    /\ UNCHANGED <<isGenerating, currentStep, genError, genTimer, genStarted>>
    /\ UNCHANGED <<appVars, dbVars, mlVars, exportVars, uploadVars, edits>>
    /\ UNCHANGED texVars
    /\ UNCHANGED viewVars

\* blink.auth.me() returns the user to the run i, which goes on to await
\* enhancedAvatars.create.
GenerateAvatarMe(i) ==
    /\ i \in DOMAIN genRuns
    /\ genRuns[i].pc = "me"
    /\ user # Null
    /\ genRuns' = [genRuns EXCEPT ![i].pc = "create"]
    /\ lastOp' = <<"generateAvatar">>
    /\ UNCHANGED <<isGenerating, currentStep, avatarId, avatarUrl, genError, steps,
                   genTimer, genStarted>>
    /\ UNCHANGED <<appVars, dbVars, mlVars, exportVars, uploadVars, edits>>
    /\ UNCHANGED texVars
    /\ UNCHANGED viewVars

\* A run whose failed save keeps it from notifying the parent.
GenerateAvatarNotifySavedOnly(i, saved) ==
    /\ i \in DOMAIN genRuns
    /\ genRuns[i].pc \in {"me", "create"}
    /\ saved => genRuns[i].pc = "create" /\ user # Null
    /\ enhancedAvatars' =
          IF saved
          THEN enhancedAvatars \cup
                 {[id |-> genRuns[i].id, userId |-> user,
                   readyPlayerMeUrl |-> [id |-> genRuns[i].id,
                                         muscleDefinition |-> genRuns[i].muscle,
                                         bodyFat |-> genRuns[i].bodyFat],
                   muscleDefinition |-> genRuns[i].muscle,
                   bodyFatPercentage |-> genRuns[i].bodyFat,
                   gender |-> genRuns[i].gender]}
          ELSE enhancedAvatars
    /\ generatedAvatarUrl' = IF saved THEN avatarUrl ELSE generatedAvatarUrl
    /\ generatedAvatarId' = IF saved THEN genRuns[i].id ELSE generatedAvatarId
    /\ isGenerating' = FALSE
    /\ genRuns' = Without(genRuns, i)
    /\ lastOp' = <<"onAvatarGenerated">>
    /\ UNCHANGED <<currentStep, avatarId, avatarUrl, genError, steps, genTimer, genStarted>>
    /\ UNCHANGED <<heap, avatarSettings, uploadedPhoto, activePreset, user, savedAvatars,
                   showSaveDialog, showLoadDialog, avatarName, currentAvatarId,
                   customGLBModel, customModelName>>
    /\ UNCHANGED <<store, now, tasks, mlVars, exportVars, uploadVars, edits>>
    /\ UNCHANGED texVars
    /\ UNCHANGED viewVars

\* The run i resumes from blink.auth.me() or from enhancedAvatars.create, the
\* call having returned (saved) or thrown: onAvatarGenerated, which is the
\* App's handleAvatarGenerated, and the finally block.
GenerateAvatarNotify(i, saved) ==
    /\ i \in DOMAIN genRuns
    /\ genRuns[i].pc \in {"me", "create"}
    /\ saved => genRuns[i].pc = "create" /\ user # Null
    /\ enhancedAvatars' =
          IF saved
          THEN enhancedAvatars \cup
                 {[id |-> genRuns[i].id, userId |-> user,
                   readyPlayerMeUrl |-> GeneratedAvatarUrl(genRuns[i]),
                   muscleDefinition |-> genRuns[i].muscle,
                   bodyFatPercentage |-> genRuns[i].bodyFat,
                   gender |-> genRuns[i].gender]}
          ELSE enhancedAvatars
    /\ generatedAvatarUrl' = GeneratedAvatarUrl(genRuns[i])
    /\ generatedAvatarId' = genRuns[i].id
    /\ isGenerating' = FALSE
    /\ genRuns' = Without(genRuns, i)
    /\ lastOp' = <<"onAvatarGenerated">>
    /\ UNCHANGED <<currentStep, avatarId, avatarUrl, genError, steps, genTimer, genStarted>>
    /\ UNCHANGED <<heap, avatarSettings, uploadedPhoto, activePreset, user, savedAvatars,
                   showSaveDialog, showLoadDialog, avatarName, currentAvatarId,
                   customGLBModel, customModelName>>
    /\ UNCHANGED <<store, now, tasks, mlVars, exportVars, uploadVars, edits>>
    /\ UNCHANGED texVars
    /\ UNCHANGED viewVars

\* A statement of the try block of the run i throws, the call the run awaited
\* having failed: the catch block, which reads currentStep and steps from the
\* closure of the run, and the finally block.
GenerateAvatarThrows(i) ==
    /\ i \in DOMAIN genRuns
    /\ genRuns[i].pc \in {"init", "photo", "customize", "enhance", "finalize"}
    /\ genError' = "Failed to generate avatar. Please try again."
    /\ steps' = IF genRuns[i].step < Len(GenStepIds)
                THEN UpdateStepStatus(steps, GenStepIds[genRuns[i].step + 1], "error")
                ELSE steps
    /\ isGenerating' = FALSE
    /\ genRuns' = Without(genRuns, i)
    /\ lastOp' = <<"generateAvatarThrows">>
    /\ UNCHANGED <<currentStep, avatarId, avatarUrl, genTimer, genStarted>>
    /\ UNCHANGED <<appVars, dbVars, mlVars, exportVars, uploadVars, edits>>
    /\ UNCHANGED texVars
    /\ UNCHANGED viewVars

(***************************************************************************)
(* GLBUploader                                                             *)
(***************************************************************************)
\* The number of models uploaded and of uploads whose run or interval is alive,
\* and the number of runs alive when a removal starts.
MaxUploads == 1

UpperCase == <<"A", "B", "C", "D", "E", "F", "G", "H", "I", "J", "K", "L", "M",
               "N", "O", "P", "Q", "R", "S", "T", "U", "V", "W", "X", "Y", "Z">>
LowerCase == <<"a", "b", "c", "d", "e", "f", "g", "h", "i", "j", "k", "l", "m",
               "n", "o", "p", "q", "r", "s", "t", "u", "v", "w", "x", "y", "z">>

\* String.prototype.toLowerCase, on a sequence of characters.
ToLowerCase(s) ==
    [i \in DOMAIN s |->
        IF \E j \in DOMAIN UpperCase : UpperCase[j] = s[i]
        THEN LowerCase[CHOOSE j \in DOMAIN UpperCase : UpperCase[j] = s[i]]
        ELSE s[i]]

\* String.prototype.endsWith
EndsWith(s, suffix) ==
    /\ Len(s) >= Len(suffix)
    /\ SubSeq(s, Len(s) - Len(suffix) + 1, Len(s)) = suffix

\* String.prototype.replace with a string pattern: the first occurrence.
Replace(s, pattern, replacement) ==
    LET Occurs(i) == SubSeq(s, i, i + Len(pattern) - 1) = pattern
        Starts == {i \in 1..(Len(s) - Len(pattern) + 1) : Occurs(i)}
    IN  IF Starts = {}
        THEN s
        ELSE LET i == CHOOSE j \in Starts : \A k \in Starts : j <= k
             IN  SubSeq(s, 1, i - 1) \o replacement \o SubSeq(s, i + Len(pattern), Len(s))

GlbExtension == <<".", "g", "l", "b">>

MAX_FILE_SIZE == 30 * 1024 * 1024

\* The files offered to the uploader: a .glb file and a .GLB file of exactly the
\* limit, a .glb file one byte over it, and a file of another name.
Files ==
    {[name |-> <<"m", ".", "g", "l", "b">>, size |-> MAX_FILE_SIZE],
     [name |-> <<"M", ".", "G", "L", "B">>, size |-> MAX_FILE_SIZE],
     [name |-> <<"m", ".", "g", "l", "b">>, size |-> MAX_FILE_SIZE + 1],
     [name |-> <<"m", ".", "g", "l", "b", ".", "g", "z">>, size |-> MAX_FILE_SIZE]}

\* validateFile with the limit itself refused.
ValidateFileBelowLimit(file) ==
    IF ~EndsWith(ToLowerCase(file.name), GlbExtension)
    THEN "Only .glb files are supported"
    ELSE IF file.size >= MAX_FILE_SIZE
         THEN "File size must be less than 30MB"
         ELSE Null

\* validateFile: the error message, or null.
ValidateFile(file) ==
    IF ~EndsWith(ToLowerCase(file.name), GlbExtension)
    THEN "Only .glb files are supported"
    ELSE IF file.size > MAX_FILE_SIZE
         THEN "File size must be less than 30MB"
         ELSE Null

\* The App's state but the custom model.
appButModel == <<heap, avatarSettings, uploadedPhoto, activePreset, user, savedAvatars,
                 showSaveDialog, showLoadDialog, avatarName, currentAvatarId,
                 generatedAvatarUrl, generatedAvatarId>>

\* handleFileSelect, from handleDrop and from handleFileInput.
HandleFileSelect(file) ==
    /\ IF ValidateFile(file) # Null
       THEN /\ lastOp' = <<"handleFileSelect", "rejected">>
            /\ UNCHANGED selectedFile
       ELSE /\ lastOp' = <<"handleFileSelect", "accepted">>
            /\ selectedFile' = file
    /\ UNCHANGED <<isUploading, uploadProgress, uploadedModels, uploadRuns>>
    /\ UNCHANGED <<appVars, dbVars, mlVars, exportVars, genVars, edits>>
    /\ UNCHANGED texVars
    /\ UNCHANGED viewVars

\* clearSelection, the Cancel button, disabled while uploading.
ClearSelection ==
    /\ selectedFile # None
    /\ ~isUploading
    /\ selectedFile' = None
    /\ lastOp' = <<"clearSelection">>
    /\ UNCHANGED <<isUploading, uploadProgress, uploadedModels, uploadRuns>>
    /\ UNCHANGED <<appVars, dbVars, mlVars, exportVars, genVars, edits>>
    /\ UNCHANGED texVars
    /\ UNCHANGED viewVars

\* The uploads that have not returned.
UploadsInFlight == {i \in DOMAIN uploadRuns : uploadRuns[i].pc = "upload"}

\* uploadModel up to the await of blink.storage.upload; the button is shown
\* with a selected file and disabled while uploading.
UploadModelStart ==
    /\ selectedFile # None
    /\ ~isUploading
    /\ Len(uploadedModels) + Len(SelectSeq(uploadRuns, LAMBDA r : r.pc # "remove"))
          < MaxUploads
    /\ isUploading' = TRUE
    /\ uploadProgress' = 0
    /\ uploadRuns' = Append(uploadRuns,
            [pc |-> "upload", file |-> selectedFile, interval |-> TRUE])
    /\ lastOp' = <<"uploadModel">>
    /\ UNCHANGED <<uploadedModels, selectedFile>>
    /\ UNCHANGED <<appVars, dbVars, mlVars, exportVars, genVars, edits>>
    /\ UNCHANGED texVars
    /\ UNCHANGED viewVars

\* A run whose upload has ended and whose interval is cleared is over.
LiveRuns(runs) ==
    SelectSeq(runs, LAMBDA r : r.pc # "ended" \/ r.interval)

\* The 200 ms interval of the run i.
ProgressInterval(i) ==
    /\ i \in DOMAIN uploadRuns
    /\ uploadRuns[i].pc \in {"upload", "ended"}
    /\ uploadRuns[i].interval
    /\ IF uploadProgress >= 90
       THEN /\ uploadProgress' = 90
            /\ uploadRuns' = LiveRuns([uploadRuns EXCEPT ![i].interval = FALSE])
       ELSE /\ uploadProgress' = uploadProgress + 10
            /\ UNCHANGED uploadRuns
    /\ lastOp' = <<"progressInterval">>
    /\ UNCHANGED <<isUploading, uploadedModels, selectedFile>>
    /\ UNCHANGED <<appVars, dbVars, mlVars, exportVars, genVars, edits>>
    /\ UNCHANGED texVars
    /\ UNCHANGED viewVars

\* The percentages blink.storage.upload reports.
Percents == {50}

\* onProgress, called by blink.storage.upload for the run i.
OnProgress(i, percent) ==
    /\ i \in UploadsInFlight
    /\ uploadProgress' = percent
    /\ lastOp' = <<"onProgress">>
    /\ UNCHANGED <<isUploading, uploadedModels, selectedFile, uploadRuns>>
    /\ UNCHANGED <<appVars, dbVars, mlVars, exportVars, genVars, edits>>
    /\ UNCHANGED texVars
    /\ UNCHANGED viewVars

\* The public URL of the path models/<name>.
PublicUrl(name) == <<"models", "/">> \o name

\* blink.storage.upload returns to the run i: the model record,
\* onModelUploaded, which is the App's handleGLBModelUploaded, and the finally
\* block.
UploadModelReturns(i) ==
    /\ i \in UploadsInFlight
    /\ LET file == uploadRuns[i].file
           modelData == [name |-> Replace(file.name, GlbExtension, <<>>),
                         url |-> PublicUrl(file.name),
                         size |-> file.size,
                         uploadedAt |-> now]
       IN  /\ uploadedModels' = Append(uploadedModels, modelData)
           /\ customGLBModel' = [url |-> modelData.url]
           /\ customModelName' = [name |-> modelData.name]
    /\ uploadProgress' = 0
    /\ selectedFile' = None
    /\ isUploading' = FALSE
    /\ uploadRuns' = Without(uploadRuns, i)
    /\ lastOp' = <<"onModelUploaded">>
    /\ UNCHANGED <<appButModel, dbVars, mlVars, exportVars, genVars, edits>>
    /\ UNCHANGED texVars
    /\ UNCHANGED viewVars

\* blink.storage.upload throws to the run i: the interval is not cleared.
UploadModelThrows(i) ==
    /\ i \in UploadsInFlight
    /\ isUploading' = FALSE
    /\ uploadRuns' = [uploadRuns EXCEPT ![i].pc = "ended"]
    /\ lastOp' = <<"uploadModel", "throws">>
    /\ UNCHANGED <<uploadProgress, uploadedModels, selectedFile>>
    /\ UNCHANGED <<appVars, dbVars, mlVars, exportVars, genVars, edits>>
    /\ UNCHANGED texVars
    /\ UNCHANGED viewVars

\* The removals that have not returned.
RemovalsInFlight == {i \in DOMAIN uploadRuns : uploadRuns[i].pc = "remove"}

\* removeModel up to the await of blink.storage.remove, with the currentModel of
\* the render it was made in.
RemoveModelStart(m) ==
    /\ m \in DOMAIN uploadedModels
    /\ Len(uploadRuns) < MaxUploads
    /\ uploadRuns' = Append(uploadRuns,
            [pc |-> "remove", url |-> uploadedModels[m].url,
             currentModel |-> customGLBModel])
    /\ lastOp' = <<"removeModel">>
    /\ UNCHANGED <<isUploading, uploadProgress, uploadedModels, selectedFile>>
    /\ UNCHANGED <<appVars, dbVars, mlVars, exportVars, genVars, edits>>
    /\ UNCHANGED texVars
    /\ UNCHANGED viewVars

\* blink.storage.remove returns to the run i.
RemoveModelReturns(i) ==
    /\ i \in RemovalsInFlight
    /\ uploadedModels' = SelectSeq(uploadedModels, LAMBDA m : m.url # uploadRuns[i].url)
    /\ IF uploadRuns[i].currentModel = [url |-> uploadRuns[i].url]
       THEN customGLBModel' = None /\ customModelName' = None
       ELSE UNCHANGED <<customGLBModel, customModelName>>
    /\ uploadRuns' = Without(uploadRuns, i)
    /\ lastOp' = <<"removeModel", "returns">>
    /\ UNCHANGED <<isUploading, uploadProgress, selectedFile>>
    /\ UNCHANGED <<appButModel, dbVars, mlVars, exportVars, genVars, edits>>
    /\ UNCHANGED texVars
    /\ UNCHANGED viewVars

\* blink.storage.remove throws to the run i.
RemoveModelThrows(i) ==
    /\ i \in RemovalsInFlight
    /\ uploadRuns' = Without(uploadRuns, i)
    /\ lastOp' = <<"removeModel", "throws">>
    /\ UNCHANGED <<isUploading, uploadProgress, uploadedModels, selectedFile>>
    /\ UNCHANGED <<appVars, dbVars, mlVars, exportVars, genVars, edits>>
    /\ UNCHANGED texVars
    /\ UNCHANGED viewVars

(***************************************************************************)
(* The mesh builders: RealisticAvatarMesh (GLBAvatarViewer.tsx, the one    *)
(* ImprovedAvatar3D renders) and AvatarMesh (Avatar3D.tsx)                  *)
(***************************************************************************)
\* Lengths are kept exact.  A dimension is k thousandths times the product of
\* the factors of by, and a factor is the fraction num / den under the name
\* the source gives it.  Segment counts and angles of a geometry are left out
\* of args, and the shapes of a <group> carry the group's offset in their
\* position.
Dim(k, by) == [k |-> k, by |-> by]

\* <mesh position={position}><geometry args={args} /><material color /></mesh>
Shape(part, geometry, args, position, color) ==
    [part |-> part, geometry |-> geometry, args |-> args, argsIsArray |-> TRUE,
     position |-> position, color |-> color]

\* The same mesh at -x and at x.
Sides(part, geometry, args, x, y, z, color) ==
    << Shape(part, geometry, args, <<[x EXCEPT !.k = -@], Dim(y, <<>>), Dim(z, <<>>)>>, color),
       Shape(part, geometry, args, <<x, Dim(y, <<>>), Dim(z, <<>>)>>, color) >>

\* A scale that turns negative within the range of its slider.
ScaleScalarsSteep(settings) ==
    [heightScale   |-> [name |-> "heightScale", num |-> settings.height, den |-> 180],
     muscleScale   |-> [name |-> "muscleScale",
                        num |-> 1000 + (settings.muscle - 50) * 40, den |-> 1000],
     bodyFatScale  |-> [name |-> "bodyFatScale",
                        num |-> 1000 + (settings.bodyFat - 20) * 3, den |-> 1000],
     shoulderScale |-> [name |-> "shoulderScale",
                        num |-> 1000 + (settings.shoulderWidth - 50) * 3, den |-> 1000],
     waistScale    |-> [name |-> "waistScale",
                        num |-> 1000 + (settings.waistSize - 50) * 2, den |-> 1000]]

\* heightScale, muscleScale, bodyFatScale, shoulderScale and waistScale, the
\* same in both builders.
ScaleScalars(settings) ==
    [heightScale   |-> [name |-> "heightScale", num |-> settings.height, den |-> 180],
     muscleScale   |-> [name |-> "muscleScale",
                        num |-> 1000 + (settings.muscle - 50) * 4, den |-> 1000],
     bodyFatScale  |-> [name |-> "bodyFatScale",
                        num |-> 1000 + (settings.bodyFat - 20) * 3, den |-> 1000],
     shoulderScale |-> [name |-> "shoulderScale",
                        num |-> 1000 + (settings.shoulderWidth - 50) * 3, den |-> 1000],
     waistScale    |-> [name |-> "waistScale",
                        num |-> 1000 + (settings.waistSize - 50) * 2, den |-> 1000]]

\* A factor of 1 + value * 0.001 whatever the builder.
FeatureScalePerMille(name, value, perUnit) ==
    [name |-> name, num |-> 1000 + value, den |-> 1000]

\* 1 + value * perUnit / 1000, the factor of a facial feature.
FeatureScale(name, value, perUnit) ==
    [name |-> name, num |-> 1000 + value * perUnit, den |-> 1000]

\* skinColor, as the hue, saturation and lightness handed to setHSL.
skinColor(settings) ==
    [h |-> <<settings.skinTone * 15, 10000>>,
     s |-> <<3000 + settings.skinTone * 40, 10000>>,
     l |-> <<4000 + settings.skinTone * 40, 10000>>]

\* hairColor, as the hue, saturation and lightness handed to setHSL.
hairColor(settings) ==
    [h |-> <<settings.hairColor * 8, 1000>>, s |-> <<8, 10>>, l |-> <<3, 10>>]

\* An entry of a genderMultipliers table, in hundredths.
Multiplier(name, hundredths) == [name |-> name, num |-> hundredths, den |-> 100]

\* genderMultipliers of RealisticAvatarMesh.
genderMultipliers ==
    ("male" :>
        [shoulderBonus  |-> Multiplier("shoulderBonus", 120),
         waistReduction |-> Multiplier("waistReduction", 90),
         muscle         |-> Multiplier("muscle", 110),
         hipReduction   |-> Multiplier("hipReduction", 90)])
    @@ ("female" :>
        [shoulderBonus  |-> Multiplier("shoulderBonus", 90),
         waistReduction |-> Multiplier("waistReduction", 70),
         muscle         |-> Multiplier("muscle", 80),
         hipReduction   |-> Multiplier("hipReduction", 110)])
    @@ ("non-binary" :>
        [shoulderBonus  |-> Multiplier("shoulderBonus", 100),
         waistReduction |-> Multiplier("waistReduction", 80),
         muscle         |-> Multiplier("muscle", 95),
         hipReduction   |-> Multiplier("hipReduction", 100)])

\* genderMultipliers of AvatarMesh.
genderMultipliersAvatarMesh ==
    ("male" :>
        [shoulderBonus  |-> Multiplier("shoulderBonus", 120),
         waistReduction |-> Multiplier("waistReduction", 90),
         muscle         |-> Multiplier("muscle", 110)])
    @@ ("female" :>
        [shoulderBonus  |-> Multiplier("shoulderBonus", 90),
         waistReduction |-> Multiplier("waistReduction", 80),
         muscle         |-> Multiplier("muscle", 80)])
    @@ ("non-binary" :>
        [shoulderBonus  |-> Multiplier("shoulderBonus", 100),
         waistReduction |-> Multiplier("waistReduction", 85),
         muscle         |-> Multiplier("muscle", 95)])

\* Definition shapes that appear from the threshold on, not above it.
DefinitionShownFromThreshold(settings) ==
    [chest  |-> settings.muscle >= 30,
     abs    |-> settings.muscle >= 40 /\ settings.bodyFat <= 25,
     biceps |-> settings.muscle >= 50,
     quads  |-> settings.muscle >= 45]

\* The conditions under which the builders emit the muscle-definition shapes,
\* the same in both.
DefinitionShown(settings) ==
    [chest  |-> settings.muscle > 30,
     abs    |-> settings.muscle > 40 /\ settings.bodyFat < 25,
     biceps |-> settings.muscle > 50,
     quads  |-> settings.muscle > 45]

\* Math.PI, in thousandths.
MathPI == 3142

\* A hair that keeps the cap of style 1 under every other style.
RealisticHairLayered(settings) ==
    LET At(y, z) == <<Dim(0, <<>>), Dim(y, <<>>), Dim(z, <<>>)>>
    IN  << Shape("hair", "sphere", <<Dim(120, <<>>)>>, At(1720, -10), "hair") >>
        \o (IF settings.hairStyle = 2
            THEN << Shape("hair", "cylinder",
                          <<Dim(110, <<>>), Dim(130, <<>>), Dim(180, <<>>)>>,
                          At(1750, -20), "hair") >>
            ELSE <<>>)
        \o (IF settings.hairStyle = 3
            THEN << Shape("hair", "sphere", <<Dim(130, <<>>)>>, At(1780, 0), "hair") >>
            ELSE <<>>)
        \o (IF settings.hairStyle = 4
            THEN << Shape("hair", "sphere", <<Dim(140, <<>>)>>, At(1700, 0), "hair") >>
            ELSE <<>>)

\* The hair of RealisticAvatarMesh: one block per hairStyle id.
RealisticHair(settings) ==
    LET At(y, z) == <<Dim(0, <<>>), Dim(y, <<>>), Dim(z, <<>>)>>
    IN  (IF settings.hairStyle = 1
         THEN << Shape("hair", "sphere", <<Dim(120, <<>>)>>, At(1720, -10), "hair") >>
         ELSE <<>>)
        \o (IF settings.hairStyle = 2
            THEN << Shape("hair", "cylinder",
                          <<Dim(110, <<>>), Dim(130, <<>>), Dim(180, <<>>)>>,
                          At(1750, -20), "hair") >>
            ELSE <<>>)
        \o (IF settings.hairStyle = 3
            THEN << Shape("hair", "sphere", <<Dim(130, <<>>)>>, At(1780, 0), "hair") >>
            ELSE <<>>)
        \o (IF settings.hairStyle = 4
            THEN << Shape("hair", "sphere", <<Dim(140, <<>>)>>, At(1700, 0), "hair") >>
            ELSE <<>>)

\* The hair of AvatarMesh: one block per hairStyle id.
AvatarMeshHair(settings) ==
    LET At(y, z) == <<Dim(0, <<>>), Dim(y, <<>>), Dim(z, <<>>)>>
    IN  (IF settings.hairStyle = 1
         THEN << Shape("hair", "sphere", <<Dim(130, <<>>)>>, At(1700, 0), "hair") >>
         ELSE <<>>)
        \o (IF settings.hairStyle = 2
            THEN << Shape("hair", "box",
                          <<Dim(220, <<>>), Dim(150, <<>>), Dim(200, <<>>)>>,
                          At(1700, -20), "hair") >>
            ELSE <<>>)
        \o (IF settings.hairStyle = 3
            THEN << Shape("hair", "cylinder",
                          <<Dim(100, <<>>), Dim(140, <<>>), Dim(200, <<>>)>>,
                          At(1750, 0), "hair") >>
            ELSE <<>>)
        \o (IF settings.hairStyle = 4
            THEN << Shape("hair", "sphere", <<Dim(140, <<>>)>>, At(1680, 0), "hair") >>
            ELSE <<>>)

\* RealisticAvatarMesh({ settings }): the scene it returns.  The args of the
\* torso and of the waist are written {[...], 16, 16, ...}: a comma
\* expression, whose value is its last operand and not the array.
RealisticAvatarMesh(settings) ==
    LET sc == ScaleScalars(settings)
        genderMods == genderMultipliers[settings.gender]
        shown == DefinitionShown(settings)
        N(k) == Dim(k, <<>>)
        At(x, y, z) == <<N(x), N(y), N(z)>>
        ArmX(k) == Dim(k, <<sc.shoulderScale, genderMods.shoulderBonus>>)
    IN  [scale |-> sc.heightScale,
         skinColor |-> skinColor(settings),
         hairColor |-> hairColor(settings),
         shapes |->
            << Shape("head", "sphere",
                     <<Dim(110, <<FeatureScale("facialStructure", settings.facialStructure, 2)>>)>>,
                     At(0, 1600, 0), "skin") >>
            \o Sides("eye", "sphere",
                     <<Dim(15, <<FeatureScale("eyeSize", settings.eyeSize, 2)>>)>>,
                     N(35), 1630, 80, "#ffffff")
            \o Sides("pupil", "sphere", <<N(8)>>, N(35), 1630, 90, "#1a1a2e")
            \o << Shape("nose", "cone",
                        <<Dim(15, <<FeatureScale("noseSize", settings.noseSize, 2)>>), N(30)>>,
                        At(0, 1580, 90), "skin*0.98"),
                  Shape("mouth", "sphere",
                        <<Dim(25, <<FeatureScale("mouthSize", settings.mouthSize, 2)>>)>>,
                        At(0, 1540, 80), "#8B2635") >>
            \o RealisticHair(settings)
            \o << Shape("neck", "cylinder", <<N(55), N(65), N(120)>>, At(0, 1450, 0), "skin"),
                  [Shape("torso", "sphere", <<N(MathPI)>>, At(0, 1100, 0), "skin")
                      EXCEPT !.argsIsArray = FALSE] >>
            \o (IF shown.chest
                THEN Sides("chest", "sphere",
                           <<Dim(50, <<sc.muscleScale, genderMods.muscle>>)>>,
                           N(70), 1250, 80, "skin*0.96")
                ELSE <<>>)
            \o (IF shown.abs
                THEN << Shape("abs", "sphere", <<N(40)>>, At(0, 1000, 90), "skin*0.94"),
                        Shape("abs", "sphere", <<N(40)>>, At(0, 920, 90), "skin*0.94"),
                        Shape("abs", "sphere", <<N(40)>>, At(0, 840, 90), "skin*0.94") >>
                ELSE <<>>)
            \o << [Shape("waist", "sphere", <<N(16000)>>, At(0, 750, 0), "skin")
                      EXCEPT !.argsIsArray = FALSE] >>
            \o Sides("upperArm", "capsule", <<Dim(40, <<sc.muscleScale>>), N(250)>>,
                     ArmX(220), 1150, 0, "skin")
            \o (IF shown.biceps
                THEN Sides("bicep", "sphere",
                           <<Dim(35, <<sc.muscleScale, genderMods.muscle>>)>>,
                           ArmX(220), 1250, 0, "skin*0.95")
                ELSE <<>>)
            \o Sides("forearm", "capsule", <<Dim(35, <<sc.muscleScale>>), N(220)>>,
                     ArmX(280), 850, 0, "skin")
            \o Sides("hand", "sphere", <<N(35)>>, ArmX(320), 650, 0, "skin")
            \o Sides("thigh", "capsule", <<Dim(60, <<sc.muscleScale>>), N(350)>>,
                     N(110), 400, 0, "skin")
            \o (IF shown.quads
                THEN Sides("quad", "sphere", <<Dim(40, <<sc.muscleScale>>)>>,
                           N(110), 500, 50, "skin*0.94")
                ELSE <<>>)
            \o Sides("calf", "capsule", <<Dim(45, <<sc.muscleScale>>), N(250)>>,
                     N(110), 50, -10, "skin")
            \o Sides("foot", "sphere", <<N(40)>>, N(110), -150, 40, "skin")
            \o << Shape("heightIndicator", "text", <<N(settings.height * 10)>>,
                        At(400, 0, 0), "#60A5FA") >>]

\* AvatarMesh({ settings }): the scene it returns.
AvatarMesh(settings) ==
    LET sc == ScaleScalars(settings)
        genderMods == genderMultipliersAvatarMesh[settings.gender]
        shown == DefinitionShown(settings)
        N(k) == Dim(k, <<>>)
        At(x, y, z) == <<N(x), N(y), N(z)>>
        ArmX(k) == Dim(k, <<sc.shoulderScale, genderMods.shoulderBonus>>)
    IN  [scale |-> sc.heightScale,
         skinColor |-> skinColor(settings),
         hairColor |-> hairColor(settings),
         shapes |->
            << Shape("head", "sphere",
                     <<Dim(120, <<FeatureScale("facialStructure", settings.facialStructure, 1)>>)>>,
                     At(0, 1600, 0), "skin") >>
            \o Sides("eye", "sphere",
                     <<Dim(10, <<FeatureScale("eyeSize", settings.eyeSize, 1)>>)>>,
                     N(40), 1630, 80, "#000033")
            \o << Shape("nose", "box",
                        <<Dim(20, <<FeatureScale("noseSize", settings.noseSize, 1)>>),
                          N(40), N(20)>>,
                        At(0, 1580, 90), "skin"),
                  Shape("mouth", "box",
                        <<Dim(60, <<FeatureScale("mouthSize", settings.mouthSize, 1)>>),
                          N(10), N(10)>>,
                        At(0, 1540, 80), "#8B2635") >>
            \o AvatarMeshHair(settings)
            \o << Shape("neck", "cylinder", <<N(60), N(80), N(150)>>, At(0, 1450, 0), "skin"),
                  Shape("torso", "box",
                        <<Dim(350, <<sc.shoulderScale, sc.muscleScale, sc.bodyFatScale,
                                     genderMods.shoulderBonus>>),
                          N(600),
                          Dim(200, <<sc.muscleScale, sc.bodyFatScale>>)>>,
                        At(0, 1100, 0), "skin") >>
            \o (IF shown.chest
                THEN Sides("chest", "sphere",
                           <<Dim(60, <<sc.muscleScale, genderMods.muscle>>)>>,
                           N(80), 1250, 80, "skin*0.95")
                ELSE <<>>)
            \o (IF shown.abs
                THEN << Shape("abs", "box", <<N(120), N(80), N(20)>>, At(0, 1050, 90), "skin*0.92"),
                        Shape("abs", "box", <<N(120), N(80), N(20)>>, At(0, 950, 90), "skin*0.92") >>
                ELSE <<>>)
            \o << Shape("waist", "cylinder",
                        <<Dim(150, <<sc.waistScale, sc.bodyFatScale, genderMods.waistReduction>>),
                          Dim(180, <<sc.bodyFatScale>>),
                          N(250)>>,
                        At(0, 750, 0), "skin") >>
            \o Sides("upperArm", "cylinder",
                     <<Dim(50, <<sc.muscleScale>>), Dim(60, <<sc.muscleScale>>), N(500)>>,
                     ArmX(250), 1200, 0, "skin")
            \o (IF shown.biceps
                THEN Sides("bicep", "sphere",
                           <<Dim(40, <<sc.muscleScale, genderMods.muscle>>)>>,
                           ArmX(250), 1300, 0, "skin*0.94")
                ELSE <<>>)
            \o Sides("forearm", "cylinder",
                     <<Dim(40, <<sc.muscleScale>>), Dim(50, <<sc.muscleScale>>), N(400)>>,
                     ArmX(320), 850, 0, "skin")
            \o Sides("hand", "sphere", <<N(40)>>, ArmX(360), 600, 0, "skin")
            \o Sides("thigh", "cylinder",
                     <<Dim(80, <<sc.muscleScale>>),
                       Dim(100, <<sc.muscleScale, sc.bodyFatScale>>), N(700)>>,
                     N(120), 350, 0, "skin")
            \o (IF shown.quads
                THEN Sides("quad", "box", <<Dim(80, <<sc.muscleScale>>), N(250), N(40)>>,
                           N(120), 550, 60, "skin*0.93")
                ELSE <<>>)
            \o Sides("calf", "cylinder",
                     <<Dim(60, <<sc.muscleScale>>), Dim(70, <<sc.muscleScale>>), N(400)>>,
                     N(120), -150, -20, "skin")
            \o Sides("foot", "box", <<N(80), N(40), N(200)>>, N(120), -400, 50, "skin")
            \o << Shape("heightIndicator", "text", <<N(settings.height * 10)>>,
                        At(500, 0, 0), "#60A5FA") >>]

\* The two builders of the repository, and the scene each returns.
Builders == {"RealisticAvatarMesh", "AvatarMesh"}

Build(builder, settings) ==
    IF builder = "RealisticAvatarMesh"
    THEN RealisticAvatarMesh(settings)
    ELSE AvatarMesh(settings)

\* What ImprovedAvatar3D hands to the canvas when no custom model is loaded.
RenderedScene == RealisticAvatarMesh(Live)

(***************************************************************************)
(* TextureEnhancer: generateEnhancedTexture                                *)
(***************************************************************************)
\* The number of generateEnhancedTexture runs a behaviour starts: where the
\* pixels of a run are followed, and where the runs overlap.
MaxTextures == 1
MaxTexRuns == 2

\* The pixels of the canvas the model follows: fx and fy are the coordinates in
\* 512ths of the canvas size, and vein is
\* Math.sin(nx * 20) * Math.cos(ny * 15) * 0.5 + 0.5 at that pixel, in
\* thousandths.  In order: the chest region alone, the chest and abs regions,
\* the arms region on a vein, no region.
PixelSamples ==
    << [fx |-> 256, fy |-> 205, vein |-> 238],
       [fx |-> 256, fy |-> 282, vein |-> 608],
       [fx |-> 40,  fy |-> 214, vein |-> 1000],
       [fx |-> 154, fy |-> 51,  vein |-> 490] >>

\* skinHue / 360, skinSat / 100 and skinLight / 100: the hue, saturation and
\* lightness handed to hslToRgb, each as a fraction <<num, den>>.
TextureBase(c) ==
    [h |-> <<c.skinTone * 30, 100 * 360>>,
     s |-> <<40 * 100 + c.skinTone * 30, 100 * 100>>,
     l |-> <<50 * 100 + c.skinTone * 30, 100 * 100>>]

\* hue2rgb(p, q, t), with p and q in millionths and t in 1200ths.
hue2rgb(p, q, t) ==
    LET u == IF t < 0 THEN t + 1200 ELSE IF t > 1200 THEN t - 1200 ELSE t
    IN  IF u < 200 THEN p + ((q - p) * u) \div 200
        ELSE IF u < 600 THEN q
        ELSE IF u < 800 THEN p + ((q - p) * (800 - u)) \div 200
        ELSE p

\* hslToRgb(h, s, l), with h in 1200ths and s and l in thousandths: the three
\* channels, each Math.round(v * 255).
hslToRgb(h, s, l) ==
    LET q == IF l < 500 THEN l * (1000 + s) ELSE 1000 * l + 1000 * s - l * s
        p == 2000 * l - q
        Round255(v) == (v * 255 + 500000) \div 1000000
    IN  IF s = 0
        THEN <<Round255(l * 1000), Round255(l * 1000), Round255(l * 1000)>>
        ELSE <<Round255(hue2rgb(p, q, h + 400)),
               Round255(hue2rgb(p, q, h)),
               Round255(hue2rgb(p, q, h - 400))>>

\* A muscle definition that is not gated on the muscle setting.
muscleDefinitionUngated(c, px) ==
    LET quality == c.textureQuality
        x == px.fx * (quality \div 512)
        y == px.fy * (quality \div 512)
    IN  IF 10 * y > 3 * quality /\ 10 * y < 8 * quality
        THEN c.muscle * c.muscleIntensity * 30
        ELSE 0

\* The terms of the per-pixel rule are kept in ten-thousandths of a colour
\* level.
\* muscleDefinition at the pixel px of a quality x quality canvas: nx = x / quality
\* and ny = y / quality are compared as fractions.
muscleDefinition(c, px) ==
    LET quality == c.textureQuality
        x == px.fx * (quality \div 512)
        y == px.fy * (quality \div 512)
        Abs(v) == IF v < 0 THEN -v ELSE v
        chest == 10 * y > 3 * quality /\ 10 * y < 6 * quality
                 /\ Abs(10 * x - 5 * quality) < 2 * quality
        abs   == 10 * y > 5 * quality /\ 10 * y < 8 * quality
                 /\ Abs(100 * x - 50 * quality) < 15 * quality
        arms  == (10 * x < 2 * quality \/ 10 * x > 8 * quality)
                 /\ 10 * y > 2 * quality /\ 10 * y < 7 * quality
    IN  IF c.muscle > 30
        THEN IF arms THEN c.muscle * c.muscleIntensity * 20
             ELSE IF abs THEN c.muscle * c.muscleIntensity * 25
             ELSE IF chest THEN c.muscle * c.muscleIntensity * 30
             ELSE 0
        ELSE 0

\* A vascular detail that tests the muscle setting alone.
vascularDetailAnyFat(c, px) ==
    IF c.muscle > 60
    THEN IF px.vein > 800 THEN c.vascularization * 1500 ELSE 0
    ELSE 0

\* vascularDetail at the pixel px.
vascularDetail(c, px) ==
    IF c.muscle > 60 /\ c.bodyFat < 15
    THEN IF px.vein > 800 THEN c.vascularization * 1500 ELSE 0
    ELSE 0

\* A store that keeps the ten-thousandths it is handed.
Uint8ClampedUnscaled(v) == v

\* The byte a Uint8ClampedArray keeps of a value: the nearest integer, the even
\* one of two equally near, within 0..255.
Uint8Clamped(v) ==
    LET floor == v \div 10000
        rest == v % 10000
        near == IF rest > 5000 \/ (rest = 5000 /\ floor % 2 = 1) THEN floor + 1 ELSE floor
    IN  IF near < 0 THEN 0 ELSE IF near > 255 THEN 255 ELSE near

\* The four bytes the loop writes for the pixel px, with Math.random() = rnd
\* thousandths.
PixelRule(c, px, rnd) ==
    LET base == TextureBase(c)
        hsl == hslToRgb((base.h[1] * 1200) \div base.h[2],
                        (base.s[1] * 1000) \div base.s[2],
                        (base.l[1] * 1000) \div base.l[2])
        noise == (rnd - 500) * c.skinDetail * 2
        fatSoftening == c.bodyFat * 1000
        Final(channel) ==
            LET v == channel * 10000 + noise - muscleDefinition(c, px)
                     - vascularDetail(c, px) + fatSoftening
            IN  IF v < 0 THEN 0 ELSE IF v > 2550000 THEN 2550000 ELSE v
    IN  <<Uint8Clamped(Final(hsl[1])), Uint8Clamped(Final(hsl[2])),
          Uint8Clamped(Final(hsl[3])), 255>>

\* generateEnhancedTexture of the closure c, up to its await of the 1500 ms
\* timeout: setIsGenerating(true), the pixel loop, putImageData and toBlob.
\* The two overlay gradients it then draws on the canvas leave imageData as it
\* is.
GenerateEnhancedTexture(c, rnd) ==
    /\ texGenerating' = TRUE
    /\ imageData' = [i \in DOMAIN PixelSamples |-> PixelRule(c, PixelSamples[i], rnd[i])]
    /\ texRuns' = Append(texRuns, [n |-> texStarted + 1, inputs |-> c,
                                   blob |-> TRUE, sleeping |-> TRUE])
    /\ texStarted' = texStarted + 1
    /\ UNCHANGED <<textureQuality, muscleIntensity, skinDetail, vascularization,
                   generatedTexture, enhancedTexture>>

\* The auto-generate timer fires, 500 ms after the effect set it.
TexTimerFires(rnd) ==
    /\ texTimer # None
    /\ GenerateEnhancedTexture(texTimer, rnd)
    /\ texTimer' = None
    /\ lastOp' = <<"texTimerFires">>
    /\ UNCHANGED <<appVars, dbVars, mlVars, exportVars, genVars, uploadVars, edits>>
    /\ UNCHANGED viewVars

\* The "Generate Texture" button, disabled while isGenerating.
ClickGenerateTexture(rnd) ==
    /\ EditorShown
    /\ ~texGenerating
    /\ GenerateEnhancedTexture(TexClosure(Live, textureQuality, muscleIntensity,
                                          skinDetail, vascularization), rnd)
    /\ lastOp' = <<"clickGenerateTexture">>
    /\ UNCHANGED <<texTimer, appVars, dbVars, mlVars, exportVars, genVars, uploadVars,
                   edits>>
    /\ UNCHANGED viewVars

\* The runs after run i is past its blob callback or its timeout.
TexRunsPast(i, field) ==
    LET run == [texRuns[i] EXCEPT ![field] = FALSE]
    IN  IF ~run.blob /\ ~run.sleeping
        THEN Without(texRuns, i)
        ELSE [texRuns EXCEPT ![i] = run]

\* The toBlob callback of run i: setGeneratedTexture(url) and
\* onTextureGenerated(url), App's handleTextureGenerated.
ToBlobCallback(i) ==
    /\ texRuns[i].blob
    /\ generatedTexture' = texRuns[i].n
    /\ enhancedTexture' = texRuns[i].n
    /\ texRuns' = TexRunsPast(i, "blob")
    /\ lastOp' = <<"toBlobCallback">>
    /\ UNCHANGED <<textureQuality, muscleIntensity, skinDetail, vascularization,
                   texGenerating, texTimer, texStarted, imageData>>
    /\ UNCHANGED <<appVars, dbVars, mlVars, exportVars, genVars, uploadVars, edits>>
    /\ UNCHANGED viewVars

\* The 1500 ms timeout of run i is over: finally, setIsGenerating(false).
GenerateEnhancedTextureFinish(i) ==
    /\ texRuns[i].sleeping
    /\ texGenerating' = FALSE
    /\ texRuns' = TexRunsPast(i, "sleeping")
    /\ lastOp' = <<"generateEnhancedTexture", "finally">>
    /\ UNCHANGED <<textureQuality, muscleIntensity, skinDetail, vascularization,
                   generatedTexture, enhancedTexture, texTimer, texStarted, imageData>>
    /\ UNCHANGED <<appVars, dbVars, mlVars, exportVars, genVars, uploadVars, edits>>
    /\ UNCHANGED viewVars

\* A tuning slider moves to value: the state setter, and the effect of the
\* render that follows.  The vascularization slider is shown for muscle > 60.
OnTuningChange(slider, value) ==
    /\ EditorShown
    /\ edits < MaxEdits
    /\ slider = "vascularization" => Live.muscle > 60
    /\ muscleIntensity' = IF slider = "muscleIntensity" THEN value ELSE muscleIntensity
    /\ skinDetail' = IF slider = "skinDetail" THEN value ELSE skinDetail
    /\ vascularization' = IF slider = "vascularization" THEN value ELSE vascularization
    /\ texTimer' =
          IF <<muscleIntensity', skinDetail', vascularization'>>
                # <<muscleIntensity, skinDetail, vascularization>>
          THEN TexClosure(Live, textureQuality, muscleIntensity', skinDetail',
                          vascularization')
          ELSE texTimer
    /\ lastOp' = <<"onTuningChange">>
    /\ edits' = edits + 1
    /\ UNCHANGED <<textureQuality, texGenerating, generatedTexture, enhancedTexture,
                   texRuns, texStarted, imageData>>
    /\ UNCHANGED <<appVars, dbVars, mlVars, exportVars, genVars, uploadVars>>
    /\ UNCHANGED viewVars

\* A quality button: setTextureQuality, which no effect depends on.
SetTextureQuality(quality) ==
    /\ EditorShown
    /\ edits < MaxEdits
    /\ textureQuality' = quality
    /\ lastOp' = <<"setTextureQuality">>
    /\ edits' = edits + 1
    /\ UNCHANGED <<muscleIntensity, skinDetail, vascularization, texGenerating,
                   generatedTexture, enhancedTexture, texTimer, texRuns, texStarted,
                   imageData>>
    /\ UNCHANGED <<appVars, dbVars, mlVars, exportVars, genVars, uploadVars>>
    /\ UNCHANGED viewVars

(***************************************************************************)
(* ImprovedAvatar3D: the choice between the 3D canvas and the 2D fallback  *)
(* (GLBAvatarViewer.tsx 691-711, 808-840)                                  *)
(***************************************************************************)
\* The browser the page is loaded in: what canvas.getContext('webgl') ||
\* canvas.getContext('experimental-webgl') does there.
BrowserEnvironment(gl) ==
    /\ lastOp = <<"construct">>
    /\ user = Null
    /\ gl # webgl
    /\ webgl' = gl
    /\ lastOp' = <<"browser", gl>>
    /\ UNCHANGED <<appVars, dbVars, mlVars, exportVars, genVars, uploadVars, texVars,
                   webglSupported, renderError, hasError, probePending, edits>>

\* What ImprovedAvatar3D returns: the early return of Avatar2DFallback, else
\* the Canvas inside Avatar3DErrorBoundary, which renders its fallback when
\* hasError.
DisplayMode ==
    IF ~webglSupported \/ renderError # Null THEN "Avatar2DFallback"
    ELSE IF hasError THEN "Avatar2DFallback"
    ELSE "Canvas"

\* The mount effect of ImprovedAvatar3D: the WebGL probe.
WebGLProbeEffect ==
    /\ EditorShown
    /\ probePending
    /\ probePending' = FALSE
    /\ CASE webgl = "context" -> UNCHANGED <<webglSupported, renderError, hasError>>
         [] webgl = "null" ->
                /\ webglSupported' = FALSE
                /\ renderError' = "WebGL not supported on this device"
                /\ hasError' = FALSE
         [] webgl = "throws" ->
                /\ webglSupported' = FALSE
                /\ renderError' = "3D rendering not available"
                /\ hasError' = FALSE
    /\ lastOp' = <<"webglProbe">>
    /\ UNCHANGED <<appVars, dbVars, mlVars, exportVars, genVars, uploadVars, texVars,
                   webgl, edits>>

\* handleCanvasError, called from the Canvas's onCreated catch or its onError:
\* the Canvas is mounted.  The component then returns the fallback, and the
\* error boundary unmounts.
HandleCanvasError ==
    /\ EditorShown
    /\ DisplayMode = "Canvas"
    /\ renderError' = "3D rendering failed - using 2D fallback"
    /\ webglSupported' = FALSE
    /\ hasError' = FALSE
    /\ lastOp' = <<"handleCanvasError">>
    /\ UNCHANGED <<appVars, dbVars, mlVars, exportVars, genVars, uploadVars, texVars,
                   webgl, probePending, edits>>

\* The messages of the window's error events.
ErrorMessages == {"WebGL: INVALID_OPERATION", "THREE.WebGLRenderer: Context Lost.",
                  "ResizeObserver loop limit exceeded"}

\* error.message?.includes('WebGL') || error.message?.includes('Context Lost')
IncludesWebGL(message) ==
    message \in {"WebGL: INVALID_OPERATION", "THREE.WebGLRenderer: Context Lost."}

\* handleError of Avatar3DErrorBoundary, the listener of the window's error
\* event; the boundary is mounted while ImprovedAvatar3D returns its second
\* branch.
WindowError(message) ==
    /\ EditorShown
    /\ webglSupported /\ renderError = Null
    /\ hasError' = IF IncludesWebGL(message) THEN TRUE ELSE hasError
    /\ lastOp' = <<"windowError", message>>
    /\ UNCHANGED <<appVars, dbVars, mlVars, exportVars, genVars, uploadVars, texVars,
                   webgl, webglSupported, renderError, probePending, edits>>

(***************************************************************************)
(* The state after construction                                            *)
(***************************************************************************)
Init ==
    /\ heap = (1 :> DefaultSettings)
    /\ avatarSettings = 1
    /\ uploadedPhoto = Null
    /\ activePreset = Null
    /\ user = Null
    /\ savedAvatars = <<>>
    /\ showSaveDialog = FALSE
    /\ showLoadDialog = FALSE
    /\ avatarName = <<>>
    /\ currentAvatarId = NoId
    /\ generatedAvatarUrl = None
    /\ generatedAvatarId = NoId
    /\ customGLBModel = None
    /\ customModelName = None
    /\ store = InitialStore
    /\ enhancedAvatars = {}
    /\ now = StartTime
    /\ tasks = <<>>
    /\ isAnalyzing = FALSE
    /\ analysisProgress = 0
    /\ analysisStage = ""
    /\ mlResults = None
    /\ mlRuns = <<>>
    /\ isExporting = FALSE
    /\ exportProgress = 0
    /\ exportStage = ""
    /\ exportedFiles = <<>>
    /\ activeExport = Null
    /\ exportRuns = <<>>
    /\ exported = <<>>
    /\ isGenerating = FALSE
    /\ currentStep = 0
    /\ avatarId = NoId
    /\ avatarUrl = None
    /\ genError = Null
    /\ steps = [i \in DOMAIN GenStepIds |-> "pending"]
    /\ genRuns = <<>>
    /\ genTimer = None
    /\ genStarted = 0
    /\ isUploading = FALSE
    /\ uploadProgress = 0
    /\ uploadedModels = <<>>
    /\ selectedFile = None
    /\ uploadRuns = <<>>
    /\ textureQuality = 1024
    /\ muscleIntensity = 50
    /\ skinDetail = 70
    /\ vascularization = 30
    /\ texGenerating = FALSE
    /\ generatedTexture = NoId
    /\ enhancedTexture = NoId
    /\ texTimer = None
    /\ texRuns = <<>>
    /\ texStarted = 0
    /\ imageData = <<>>
    /\ webgl = "context"
    /\ webglSupported = TRUE
    /\ renderError = Null
    /\ hasError = FALSE
    /\ probePending = FALSE
    /\ lastOp = <<"construct">>
    /\ edits = 0

(***************************************************************************)
(* The settings editor: the panel's controls, the presets, the photo        *)
(* analysis and its recommendations, and loading a saved avatar            *)
(***************************************************************************)
\* The controls moved: the gender buttons, two sliders and the hair style
\* buttons.
SettingsKeys == {"gender", "height", "bodyFat", "hairStyle"}

SettingsNext ==
    \/ \E u \in Users : OnAuthStateChanged(u)
    \/ EditorShown /\ \E key \in SettingsKeys : \E value \in ControlValues(key) :
          UpdateSetting(key, value)
    \/ EditorShown /\ \E name \in DOMAIN AvatarPresetCatalog : ClickPreset(name)
    \/ EditorShown /\ ResetToDefaults
    \/ EditorShown /\ HandlePhotoUpload
    \/ AnalyzePhotoStart
    \/ \E i \in DOMAIN mlRuns : AnalyzePhotoStage(i)
    \/ \E i \in DOMAIN mlRuns : \E rf, rh \in RandomSamples :
          AnalyzePhotoFinish(i, rf, rf, rh, rh)
    \/ ApplyMLResults

SpecSettings == Init /\ [][SettingsNext]_vars

\* C1: after any sequence of settings-changing operations every numeric field
\* of the live settings is within its declared range.
C1_InRange ==
    \A k \in NumericKeys : RangeMin(k) <= Live[k] /\ Live[k] <= RangeMax(k)

\* C2: a partial settings update changes only the fields it names.
C2_PartialUpdate ==
    [][/\ \A key \in SettingsKeys : \A value \in ControlValues(key) :
            UpdateSetting(key, value) =>
                /\ Live'[key] = value
                /\ \A k \in Keys \ {key} : Live'[k] = Live[k]
       /\ ApplyMLResults =>
            /\ \A k \in DOMAIN MLUpdates(mlResults) : Live'[k] = MLUpdates(mlResults)[k]
            /\ \A k \in Keys \ DOMAIN MLUpdates(mlResults) : Live'[k] = Live[k]
       /\ \A name \in DOMAIN AvatarPresetCatalog :
            ClickPreset(name) =>
                \A k \in Keys \ DOMAIN AvatarPresetCatalog[name] : Live'[k] = Live[k]
      ]_vars

\* The recommendations were applied to settings whose body fat had been changed,
\* and it is as it was.
C2_Witness ==
    /\ lastOp = <<"updateMultipleSettings">>
    /\ Live.height = Round(mlResults.estimatedHeight)
    /\ Live.bodyFat = RangeMax("bodyFat")

(***************************************************************************)
(* The export panel and the photo analysis                                 *)
(***************************************************************************)
\* The formats exported: an image format and a model format.
ExportSamples == {"pngHd", "fbx3d"}

StagedNext ==
    \/ \E u \in Users : OnAuthStateChanged(u)
    \/ EditorShown /\ HandlePhotoUpload
    \/ AnalyzePhotoStart
    \/ \E i \in DOMAIN mlRuns : AnalyzePhotoStage(i)
    \/ \E i \in DOMAIN mlRuns : \E rf, rh \in RandomSamples :
          AnalyzePhotoFinish(i, rf, rf, rh, rh)
    \/ \E f \in ExportSamples : HandleExportStart(f)
    \/ \E i \in DOMAIN exportRuns : HandleExportStage(i)
    \/ \E i \in DOMAIN exportRuns : HandleExportFinish(i)

SpecStaged == Init /\ [][StagedNext]_vars

\* C5: at most one export is in flight, isExporting says whether one is, and
\* activeExport names its format (null when none).
C5_OneExport ==
    /\ Len(exportRuns) <= 1
    /\ isExporting <=> exportRuns # <<>>
    /\ activeExport = IF exportRuns = <<>> THEN Null ELSE exportRuns[1].format.id

\* A second export is in flight, the first one having been delivered.
C5_Witness ==
    /\ Len(exported) = 1
    /\ Len(exportRuns) = 1
    /\ exportRuns[1].stage = 3
    /\ activeExport = "fbx-3d"
    /\ exported[1].format = "png-hd"

\* The progress values of the five phases, in order.
PhaseProgress == <<20, 40, 60, 80, 100>>

\* C6: within a run of the export or of the photo analysis the progress never
\* decreases and takes the values 20, 40, 60, 80, 100 phase by phase, and the
\* result (the onExport call, mlResults) is produced with the progress at 100.
C6_StagedProgress ==
    [][/\ (exportRuns # <<>> /\ exportRuns' # <<>>) =>
            /\ exportProgress' >= exportProgress
            /\ exportProgress' = PhaseProgress[exportRuns'[1].stage]
            /\ exportRuns'[1].stage \in {exportRuns[1].stage, exportRuns[1].stage + 1}
       /\ (exportRuns = <<>> /\ exportRuns' # <<>>) =>
            /\ exportProgress' >= exportProgress
            /\ exportProgress' = PhaseProgress[1]
       /\ (exported' # exported) =>
            /\ exportProgress = 100
            /\ exportRuns # <<>> /\ exportRuns[1].stage = Len(PhaseProgress)
       /\ (mlRuns # <<>> /\ mlRuns' # <<>>) =>
            /\ analysisProgress' >= analysisProgress
            /\ analysisProgress' = PhaseProgress[mlRuns'[1]]
            /\ mlRuns'[1] \in {mlRuns[1], mlRuns[1] + 1}
       /\ (mlRuns = <<>> /\ mlRuns' # <<>>) =>
            /\ analysisProgress' >= analysisProgress
            /\ analysisProgress' = PhaseProgress[1]
       /\ (mlResults' # mlResults) =>
            /\ analysisProgress = 100 /\ analysisProgress' = 100
            /\ mlRuns # <<>> /\ mlRuns[1] = Len(PhaseProgress)
      ]_vars

\* An export and an analysis have both delivered their results.
C6_Witness ==
    /\ Len(exported) = 1
    /\ mlResults # None
    /\ analysisProgress = 100
    /\ lastOp = <<"handleExportDone">>

(***************************************************************************)
(* The avatar generation: the settings that start it, the timer, the       *)
(* button and the runs                                                     *)
(***************************************************************************)
\* The settings changed: one the effect watches and one it does not.
GenControlKeys == {"muscle", "height"}

GenNext ==
    \/ \E u \in Users : OnAuthStateChanged(u)
    \/ EditorShown /\ \E key \in GenControlKeys : \E value \in ControlValues(key) :
          UpdateSetting(key, value)
    \/ EditorShown /\ HandlePhotoUpload
    \/ ClickGenerate
    \/ GenTimerFires
    \/ \E i \in DOMAIN genRuns : GenerateAvatarStep(i)
    \/ \E i \in DOMAIN genRuns : GenerateAvatarFinalize(i)
    \/ \E i \in DOMAIN genRuns : GenerateAvatarMe(i)
    \/ \E i \in DOMAIN genRuns : \E saved \in BOOLEAN : GenerateAvatarNotify(i, saved)
    \/ \E i \in DOMAIN genRuns : GenerateAvatarThrows(i)

SpecGen == Init /\ [][GenNext]_vars

\* C3: at most one generation run is in flight at any time.
C3_OneGeneration == Len(genRuns) <= 1

\* The run i takes a step, or ends.
GenRunActs(i) == i > Len(genRuns') \/ genRuns'[i] # genRuns[i]

\* C4: once a newer run has started, an earlier run updates no step status, no
\* avatarId or avatarUrl and not isGenerating, and does not call
\* onAvatarGenerated.
C4_Superseded ==
    [][\A i \in 1..(Len(genRuns) - 1) :
          GenRunActs(i) =>
              UNCHANGED <<steps, avatarId, avatarUrl, isGenerating,
                          generatedAvatarUrl, generatedAvatarId>>
      ]_vars

(***************************************************************************)
(* The GLB uploader: the files offered, the upload and the removal         *)
(***************************************************************************)
UploadNext ==
    \/ \E u \in Users : OnAuthStateChanged(u)
    \/ EditorShown /\ \E file \in Files : HandleFileSelect(file)
    \/ EditorShown /\ ClearSelection
    \/ EditorShown /\ UploadModelStart
    \/ \E i \in DOMAIN uploadRuns : ProgressInterval(i)
    \/ \E i \in DOMAIN uploadRuns : \E percent \in Percents : OnProgress(i, percent)
    \/ \E i \in DOMAIN uploadRuns : UploadModelReturns(i)
    \/ \E i \in DOMAIN uploadRuns : UploadModelThrows(i)
    \/ EditorShown /\ \E m \in DOMAIN uploadedModels : RemoveModelStart(m)
    \/ \E i \in DOMAIN uploadRuns : RemoveModelReturns(i)
    \/ \E i \in DOMAIN uploadRuns : RemoveModelThrows(i)

SpecUpload == Init /\ [][UploadNext]_vars

\* A file offered to the uploader is left out: nothing of the uploader or of
\* the active model changes, and no upload starts.
IntakeRejects(file) ==
    UNCHANGED <<selectedFile, uploadedModels, customGLBModel, customModelName,
                isUploading, uploadProgress, uploadRuns>>

\* C8 as stated: a file becomes the selected file if and only if its name,
\* as written, ends with .glb and its size is at most 30 MB; a file left out
\* changes nothing.
C8_IntakeAsWritten ==
    [][\A file \in Files :
          lastOp'[1] = "handleFileSelect" /\ HandleFileSelect(file) =>
              IF EndsWith(file.name, GlbExtension) /\ file.size <= 30 * 1024 * 1024
              THEN selectedFile' = file
              ELSE IntakeRejects(file)
      ]_vars

\* C8: a file becomes the selected file if and only if its name, in lower
\* case, ends with .glb and its size is at most 30 MB (30*1024*1024 bytes); a
\* file left out changes nothing of the selected file, the uploaded models, the
\* active model or the uploads under way.
C8_Intake ==
    [][\A file \in Files :
          lastOp'[1] = "handleFileSelect" /\ HandleFileSelect(file) =>
              IF EndsWith(ToLowerCase(file.name), GlbExtension)
                 /\ file.size <= 30 * 1024 * 1024
              THEN selectedFile' = file
              ELSE IntakeRejects(file) /\ selectedFile # file
      ]_vars

\* A file of exactly 30 MB with an upper-case extension is the selected file,
\* and the file offered after it was left out.
C8_Witness ==
    /\ selectedFile = [name |-> <<"M", ".", "G", "L", "B">>, size |-> MAX_FILE_SIZE]
    /\ lastOp = <<"handleFileSelect", "rejected">>

(***************************************************************************)
(* The saved avatars: saving, loading, deleting and listing, the store      *)
(* failing, and the edits of the live settings in between                  *)
(***************************************************************************)
\* The name typed, with spaces around it.
PersistNames == {<<" ", "B", " ">>}

\* The entry of the load dialog that is clicked: the newest.
PersistEntries == {1}

PersistNext ==
    \/ OnAuthStateChanged("u1")
    \/ Tick
    \/ EditorShown /\ \E open \in BOOLEAN : SetShowSaveDialog(open)
    \/ EditorShown /\ \E open \in BOOLEAN : SetShowLoadDialog(open)
    \/ EditorShown /\ \E name \in PersistNames : SetAvatarName(name)
    \/ EditorShown /\ SaveAvatarStart
    \/ EditorShown /\ \E i \in PersistEntries : LoadAvatar(i)
    \/ EditorShown /\ \E i \in PersistEntries : DeleteAvatarStart(i)
    \/ EditorShown /\ UpdateSetting("height", RangeMax("height"))
    \/ EditorShown /\ ResetToDefaults
    \/ \E i \in DOMAIN tasks : CreateReturns(i)
    \/ \E i \in DOMAIN tasks : UpdateReturns(i)
    \/ \E i \in DOMAIN tasks : DeleteReturns(i)
    \/ \E i \in DOMAIN tasks : ListReturns(i)
    \/ \E i \in DOMAIN tasks : TaskThrows(i)

SpecPersist == Init /\ [][PersistNext]_vars

\* The saved avatars as the load dialog shows them: each entry with the settings
\* its reference leads to.
SavedView ==
    [i \in DOMAIN savedAvatars |->
        [id |-> savedAvatars[i].id, name |-> savedAvatars[i].name,
         settings |-> heap[savedAvatars[i].settings],
         createdAt |-> savedAvatars[i].createdAt]]

\* C7: when the store rejects a call, the local state is left as it was: a
\* create or update that throws leaves savedAvatars, currentAvatarId, avatarName
\* and the save dialog; a delete that throws leaves savedAvatars,
\* currentAvatarId and avatarName; a list that throws leaves savedAvatars.
C7_FailureLeavesState ==
    [][\A i \in DOMAIN tasks :
          TaskThrows(i) =>
              /\ tasks[i].pc \in {"create", "update"} =>
                    UNCHANGED <<SavedView, currentAvatarId, avatarName, showSaveDialog>>
              /\ tasks[i].pc = "delete" =>
                    UNCHANGED <<SavedView, currentAvatarId, avatarName>>
              /\ tasks[i].pc = "list" => UNCHANGED SavedView
      ]_vars

\* A create has thrown with the save dialog open, the name typed and no avatar
\* current.
C7_Witness ==
    /\ lastOp = <<"save", "create", "throws">>
    /\ showSaveDialog
    /\ Trim(avatarName) # <<>>
    /\ currentAvatarId = NoId
    /\ savedAvatars # <<>>

\* The handlers that edit the live settings.
EditOps == {"updateSetting", "applyPreset", "updateMultipleSettings", "resetToDefaults"}

\* C9: no edit of the live settings changes the settings held in a stored
\* record or in an entry of savedAvatars, after a save and after the load of a
\* saved entry alike.
C9_SnapshotIsolated ==
    [][lastOp'[1] \in EditOps => UNCHANGED <<SavedView, store>>]_vars

\* The current avatar was saved in this session and is listed, and after an
\* edit the live settings differ from the entry's and from the record's.
C9_Witness ==
    /\ lastOp = <<"updateSetting">>
    /\ currentAvatarId >= StartTime
    /\ \E i \in DOMAIN savedAvatars :
          /\ savedAvatars[i].id = currentAvatarId
          /\ heap[savedAvatars[i].settings] # Live
    /\ \E r \in store : r.id = currentAvatarId /\ Parse(r.settings) # Live

\* C10: savedAvatars holds at most 10 entries, every one of them a record of
\* the current user, in descending order of creation time.
C10_SavedList ==
    /\ Len(savedAvatars) <= ListLimit
    /\ \A i \in DOMAIN savedAvatars :
          \A r \in store : r.id = savedAvatars[i].id => r.userId = user
    /\ \A i, j \in DOMAIN savedAvatars :
          i < j => savedAvatars[i].createdAt >= savedAvatars[j].createdAt

\* The user has more than ten records, after saves and a delete, and the list
\* holds the ten newest.
C10_Witness ==
    /\ lastOp = <<"save", "list", "returns">>
    /\ Len(savedAvatars) = ListLimit
    /\ Cardinality({r \in store : r.userId = user}) > ListLimit
    /\ savedAvatars[1].createdAt > savedAvatars[ListLimit].createdAt

(***************************************************************************)
(* Signing in and out around the handlers that await the store             *)
(***************************************************************************)
\* blink.auth.login() leaves the page, so a page sees one sign-in: the first
\* callback with a user.
AuthNext ==
    \/ lastOp = <<"construct">> /\ \E u \in Users : OnAuthStateChanged(u)
    \/ OnSignedOut
    \/ EditorShown /\ SetShowSaveDialog(TRUE)
    \/ EditorShown /\ SetShowLoadDialog(TRUE)
    \/ EditorShown /\ \E name \in PersistNames : SetAvatarName(name)
    \/ EditorShown /\ SaveAvatarStart
    \/ EditorShown /\ \E i \in PersistEntries : LoadAvatar(i)
    \/ EditorShown /\ \E i \in PersistEntries : DeleteAvatarStart(i)
    \/ \E i \in DOMAIN tasks : CreateReturns(i)
    \/ \E i \in DOMAIN tasks : UpdateReturns(i)
    \/ \E i \in DOMAIN tasks : DeleteReturns(i)
    \/ \E i \in DOMAIN tasks : ListReturns(i)
    \/ \E i \in DOMAIN tasks : TaskThrows(i)

SpecAuth == Init /\ [][AuthNext]_vars

\* A handler sends a request to the store: a handler starts, or one goes on
\* from the call it awaited to its next call.
RequestIssued ==
    \/ Len(tasks') > Len(tasks)
    \/ /\ Len(tasks') = Len(tasks)
       /\ \E i \in DOMAIN tasks : tasks'[i].pc # tasks[i].pc

\* C11: no create, update, list or delete request is sent to the store while
\* no user is signed in, the requests of a handler that started before the
\* sign-out included.
C11_AuthGatesStore ==
    [][RequestIssued => user' # Null]_vars

(***************************************************************************)
(* The mesh builders under the settings controls                           *)
(***************************************************************************)
\* The values the controls hand to updateSetting here: the ends of every
\* slider and, for muscle and bodyFat, the values on both sides of each
\* threshold of the builders and of the texture rule.
MeshValues(key) ==
    CASE key = "muscle"  -> {0, 30, 31, 40, 41, 45, 46, 50, 51, 60, 61, 100}
      [] key = "bodyFat" -> {5, 14, 15, 24, 25, 40}
      [] OTHER           -> ControlValues(key)

\* The fields that have a control in the settings panel: waistSize has none and
\* changes with a preset only.
MeshKeys == Keys \ {"waistSize"}

MeshNext ==
    \/ \E u \in Users : OnAuthStateChanged(u)
    \/ EditorShown /\ \E key \in MeshKeys : \E value \in MeshValues(key) :
          UpdateSetting(key, value)
    \/ EditorShown /\ \E name \in DOMAIN AvatarPresetCatalog : ClickPreset(name)

SpecMesh == Init /\ [][MeshNext]_vars

\* The shapes of a scene that belong to a body part.
PartShapes(scene, part) == SelectSeq(scene.shapes, LAMBDA shape : shape.part = part)

\* C12: in both mesh builders each group of muscle-definition shapes is in the
\* scene if and only if its condition holds: chest highlights iff muscle > 30,
\* quadricep highlights iff muscle > 45, bicep highlights iff muscle > 50,
\* abdominal shapes iff muscle > 40 and bodyFat < 25, whatever the other
\* settings are.
C12_DefinitionShapes ==
    C1_InRange =>
        \A builder \in Builders :
          LET scene == Build(builder, Live)
          IN
            /\ PartShapes(scene, "chest") # <<>> <=> Live.muscle > 30
            /\ PartShapes(scene, "quad") # <<>> <=> Live.muscle > 45
            /\ PartShapes(scene, "bicep") # <<>> <=> Live.muscle > 50
            /\ PartShapes(scene, "abs") # <<>> <=> (Live.muscle > 40 /\ Live.bodyFat < 25)

\* The chest highlights are shown at muscle 41 and the abdominal shapes are
\* not at bodyFat 25.
C12_Witness ==
    /\ lastOp = <<"updateSetting">>
    /\ Live.muscle = 41 /\ Live.bodyFat = 25 /\ Live.gender = "male"
    /\ Len(PartShapes(RenderedScene, "chest")) = 2
    /\ PartShapes(RenderedScene, "abs") = <<>>
    /\ PartShapes(RenderedScene, "quad") = <<>>

\* C13: when two in-range settings differ only in gender, the scenes a builder
\* returns for them have the same shapes, and differ only where a dimension or
\* a position is multiplied by an entry of the builder's per-gender table: the
\* torso width and the x-position of the arms, forearms, hands and biceps carry
\* shoulderBonus, the waist carries waistReduction, the chest and bicep radii
\* carry muscle, each with the entry of the scene's gender; every other shape
\* is the same in both scenes.
C13_GenderScales ==
    [][(/\ C1_InRange /\ C1_InRange'
        /\ Live'.gender # Live.gender
        /\ Live' = [Live EXCEPT !.gender = Live'.gender])
       => \A builder \in Builders :
            LET old == Build(builder, Live)
                new == Build(builder, Live')
                table == IF builder = "RealisticAvatarMesh"
                         THEN genderMultipliers
                         ELSE genderMultipliersAvatarMesh
                \* new is old with the entry of the old gender replaced by
                \* the entry of the new one
                Scaled(from, to, entry) ==
                    /\ to.k = from.k
                    /\ Len(to.by) = Len(from.by)
                    /\ \E j \in DOMAIN from.by :
                          /\ from.by[j] = table[Live.gender][entry]
                          /\ to.by[j] = table[Live'.gender][entry]
                          /\ \A i \in DOMAIN from.by \ {j} : to.by[i] = from.by[i]
                Rest(from, to, except) ==
                    /\ DOMAIN to = DOMAIN from
                    /\ \A i \in DOMAIN from \ except : to[i] = from[i]
                Same(p, q) ==
                    /\ q.part = p.part /\ q.geometry = p.geometry
                    /\ q.color = p.color /\ q.argsIsArray = p.argsIsArray
            IN  /\ new.scale = old.scale
                /\ new.skinColor = old.skinColor
                /\ new.hairColor = old.hairColor
                /\ Len(new.shapes) = Len(old.shapes)
                /\ \A i \in DOMAIN old.shapes :
                      LET p == old.shapes[i]
                          q == new.shapes[i]
                      IN  CASE p.part = "torso" ->
                                 /\ Same(p, q) /\ q.position = p.position
                                 /\ Scaled(p.args[1], q.args[1], "shoulderBonus")
                                 /\ Rest(p.args, q.args, {1})
                            [] p.part \in {"upperArm", "forearm", "hand"} ->
                                 /\ Same(p, q) /\ q.args = p.args
                                 /\ Scaled(p.position[1], q.position[1], "shoulderBonus")
                                 /\ Rest(p.position, q.position, {1})
                            [] p.part = "bicep" ->
                                 /\ Same(p, q)
                                 /\ Scaled(p.args[1], q.args[1], "muscle")
                                 /\ Rest(p.args, q.args, {1})
                                 /\ Scaled(p.position[1], q.position[1], "shoulderBonus")
                                 /\ Rest(p.position, q.position, {1})
                            [] p.part = "chest" ->
                                 /\ Same(p, q) /\ q.position = p.position
                                 /\ Scaled(p.args[1], q.args[1], "muscle")
                                 /\ Rest(p.args, q.args, {1})
                            [] p.part = "waist" ->
                                 /\ Same(p, q) /\ q.position = p.position
                                 /\ Scaled(p.args[1], q.args[1], "waistReduction")
                                 /\ DOMAIN q.args = DOMAIN p.args
                                 /\ \A a \in DOMAIN p.args \ {1} :
                                       \/ q.args[a] = p.args[a]
                                       \/ Scaled(p.args[a], q.args[a], "hipReduction")
                            [] OTHER -> q = p]_vars

\* C14: for every hairStyle id in 1..4 the scene a builder returns has exactly
\* one hair shape, a different one for each id, and when two settings differ
\* only in hairStyle their scenes are the same but for that hair shape.
C14_HairVariant ==
    [][(/\ C1_InRange /\ C1_InRange'
        /\ Live' = [Live EXCEPT !.hairStyle = Live'.hairStyle])
       => \A builder \in Builders :
            LET old == Build(builder, Live)
                new == Build(builder, Live')
                NotHair(shape) == shape.part # "hair"
            IN  /\ Len(PartShapes(old, "hair")) = 1
                /\ Len(PartShapes(new, "hair")) = 1
                /\ Live'.hairStyle # Live.hairStyle
                      => PartShapes(new, "hair") # PartShapes(old, "hair")
                /\ [new EXCEPT !.shapes = SelectSeq(@, NotHair)]
                      = [old EXCEPT !.shapes = SelectSeq(@, NotHair)]
                /\ \A i \in DOMAIN old.shapes :
                      old.shapes[i].part = "hair" <=> new.shapes[i].part = "hair"]_vars

\* Hair style 3 has been picked and the rendered scene has its one hair shape.
C14_Witness ==
    /\ lastOp = <<"updateSetting">>
    /\ Live.hairStyle = 3
    /\ Live = [DefaultSettings EXCEPT !.hairStyle = 3]
    /\ PartShapes(RenderedScene, "hair") =
          << Shape("hair", "sphere", <<Dim(130, <<>>)>>,
                   <<Dim(0, <<>>), Dim(1780, <<>>), Dim(0, <<>>)>>, "hair") >>

\* C15: for settings within the declared ranges and each gender, a builder
\* returns a scene that is not empty and in which every scale (heightScale,
\* muscleScale, bodyFatScale, shoulderScale, waistScale) and every radius,
\* width, height and depth of every shape is strictly positive.
C15_PositiveScene ==
    C1_InRange =>
        \A builder \in Builders :
            LET scene == Build(builder, Live)
                sc == ScaleScalars(Live)
                Positive(d) ==
                    /\ d.k > 0
                    /\ \A j \in DOMAIN d.by : d.by[j].num > 0 /\ d.by[j].den > 0
            IN  /\ scene.shapes # <<>>
                /\ \A name \in DOMAIN sc : sc[name].num > 0 /\ sc[name].den > 0
                /\ scene.scale = sc.heightScale
                /\ \A i \in DOMAIN scene.shapes :
                      \A a \in DOMAIN scene.shapes[i].args :
                          Positive(scene.shapes[i].args[a])

\* The muscle and bodyFat sliders are at their lower ends: the smallest
\* muscleScale (0.8) and bodyFatScale (0.955).
C15_Witness ==
    /\ lastOp = <<"updateSetting">>
    /\ Live.muscle = 0 /\ Live.bodyFat = 5
    /\ ScaleScalars(Live).muscleScale.num = 800
    /\ ScaleScalars(Live).bodyFatScale.num = 955
    /\ \E i \in DOMAIN RenderedScene.shapes :
          /\ RenderedScene.shapes[i].part = "thigh"
          /\ RenderedScene.shapes[i].args[1] = Dim(60, <<ScaleScalars(Live).muscleScale>>)

\* C16 as written: for the default settings the scene of the builder the
\* application renders has exactly one head sphere, of radius its base radius
\* times (1 + 50 * 0.001), exactly one torso shape, the chest highlights and
\* the abdominal shapes.
C16_DefaultSceneAsWritten ==
    (EditorShown /\ customGLBModel = None /\ Live = DefaultSettings) =>
        LET head == PartShapes(RenderedScene, "head")
        IN  /\ Len(head) = 1
            /\ head[1].geometry = "sphere"
            /\ Len(head[1].args[1].by) = 1
            /\ head[1].args[1].by[1].num * 1000 = (1000 + 50 * 1) * head[1].args[1].by[1].den
            /\ Len(PartShapes(RenderedScene, "torso")) = 1
            /\ PartShapes(RenderedScene, "chest") # <<>>
            /\ PartShapes(RenderedScene, "abs") # <<>>

\* C16: for the default settings the scene of the builder the application
\* renders has exactly one head sphere, of radius its base radius 0.11 times
\* (1 + 50 * 0.002), exactly one torso shape, the two chest highlights and the
\* three abdominal shapes.
C16_DefaultScene ==
    (EditorShown /\ customGLBModel = None /\ Live = DefaultSettings) =>
        LET head == PartShapes(RenderedScene, "head")
        IN  /\ Len(head) = 1
            /\ head[1].geometry = "sphere"
            /\ head[1].args[1].k = 110
            /\ Len(head[1].args[1].by) = 1
            /\ head[1].args[1].by[1].num * 1000 = (1000 + 50 * 2) * head[1].args[1].by[1].den
            /\ Len(PartShapes(RenderedScene, "torso")) = 1
            /\ Len(PartShapes(RenderedScene, "chest")) = 2
            /\ Len(PartShapes(RenderedScene, "abs")) = 3

\* The editor shows the default avatar again after the muscle slider was moved
\* and moved back.
C16_Witness ==
    /\ EditorShown /\ customGLBModel = None
    /\ edits = 2
    /\ Live = DefaultSettings
    /\ Len(PartShapes(RenderedScene, "head")) = 1
    /\ Len(PartShapes(RenderedScene, "abs")) = 3

(***************************************************************************)
(* The texture synthesizer under its controls                              *)
(***************************************************************************)
\* The values the controls hand over here: both sides of the thresholds of the
\* per-pixel rule and the upper end of the skinTone slider.
TexValues(key) ==
    CASE key = "muscle"   -> {30, 31, 60, 61}
      [] key = "bodyFat"  -> {14, 15}
      [] key = "skinTone" -> {100}

\* The Math.random() values of one run of the pixel loop, one for each pixel
\* of PixelSamples: all low, all high, and alternating.
NoiseSamples ==
    {[i \in DOMAIN PixelSamples |-> r] : r \in RandomSamples}
    \cup {[i \in DOMAIN PixelSamples |-> IF i % 2 = 0 THEN 0 ELSE 999]}

\* The values the tuning sliders hand over here.
TuningValues(slider) == IF slider = "skinDetail" THEN {100} ELSE {0, 100}

TextureNext ==
    \/ lastOp = <<"construct">> /\ OnAuthStateChanged("u1")
    \/ EditorShown /\ \E key \in {"muscle", "bodyFat", "skinTone"} :
          \E value \in TexValues(key) : UpdateSetting(key, value)
    \/ \E slider \in {"muscleIntensity", "skinDetail", "vascularization"} :
          \E value \in TuningValues(slider) : OnTuningChange(slider, value)
    \/ SetTextureQuality(2048)
    \/ texStarted < MaxTextures /\ \E rnd \in NoiseSamples : TexTimerFires(rnd)
    \/ texStarted < MaxTextures /\ \E rnd \in NoiseSamples : ClickGenerateTexture(rnd)
    \/ \E i \in DOMAIN texRuns : ToBlobCallback(i)
    \/ \E i \in DOMAIN texRuns : GenerateEnhancedTextureFinish(i)

SpecTexture == Init /\ [][TextureNext]_vars

C18_VascularGate ==
    \A i \in DOMAIN texRuns : \A p \in DOMAIN PixelSamples :
        LET c == texRuns[i].inputs
            vascular == vascularDetail(c, PixelSamples[p])
        IN  /\ (c.muscle <= 60 \/ c.bodyFat >= 15) => vascular = 0
            /\ vascular # 0 => (c.muscle > 60 /\ c.bodyFat < 15)
            /\ vascular >= 0

\* A texture is generated with the vascularization slider at 100 and muscle
\* above 60, but bodyFat at 20.
C18_Witness ==
    \E i \in DOMAIN texRuns :
        /\ texRuns[i].inputs.vascularization = 100
        /\ texRuns[i].inputs.muscle = 61
        /\ texRuns[i].inputs.bodyFat = 20
        /\ PixelSamples[3].vein > 800
        /\ imageData # <<>>

\* C19: for every skinTone the base colour of the texture has the hue,
\* saturation and lightness of the mesh builder's skin colour: hue =
\* skinTone/100 * 0.15, saturation = 0.3 + skinTone/100 * 0.4, lightness =
\* 0.4 + skinTone/100 * 0.4.
C19_SameSkinColour ==
    \A i \in DOMAIN texRuns :
        LET c == texRuns[i].inputs
            base == TextureBase(c)
            mesh == skinColor(c)
            Same(a, b) == a[1] * b[2] = b[1] * a[2]
        IN  /\ Same(base.h, mesh.h) /\ Same(base.s, mesh.s) /\ Same(base.l, mesh.l)
            /\ Same(base.h, <<c.skinTone * 15, 10000>>)
            /\ Same(base.s, <<3000 + c.skinTone * 40, 10000>>)
            /\ Same(base.l, <<4000 + c.skinTone * 40, 10000>>)

\* C20: in a texture generation the muscle-definition term is zero at every
\* pixel when muscle <= 30; when muscle > 30 it is non-zero only at a pixel of
\* the chest region (0.3 < ny < 0.6 and |nx - 0.5| < 0.2), the abs region
\* (0.5 < ny < 0.8 and |nx - 0.5| < 0.15) or the arms region ((nx < 0.2 or
\* nx > 0.8) and 0.2 < ny < 0.7), where it is muscle * muscleIntensity times a
\* constant of the region.
C20_MuscleRegions ==
    \A i \in DOMAIN texRuns : \A p \in DOMAIN PixelSamples :
        LET c == texRuns[i].inputs
            px == PixelSamples[p]
            term == muscleDefinition(c, px)
            Off(f) == IF 2 * f < 512 THEN 512 - 2 * f ELSE 2 * f - 512
            chest == 3 * 512 < 10 * px.fy /\ 10 * px.fy < 6 * 512
                     /\ 10 * Off(px.fx) < 4 * 512
            abs   == 5 * 512 < 10 * px.fy /\ 10 * px.fy < 8 * 512
                     /\ 100 * Off(px.fx) < 30 * 512
            arms  == (10 * px.fx < 2 * 512 \/ 10 * px.fx > 8 * 512)
                     /\ 2 * 512 < 10 * px.fy /\ 10 * px.fy < 7 * 512
        IN  /\ c.muscle <= 30 => term = 0
            /\ term # 0 => (c.muscle > 30 /\ (chest \/ abs \/ arms))
            /\ (c.muscle > 30 /\ (chest \/ abs \/ arms)) =>
                  \E k \in {20, 25, 30} : term = c.muscle * c.muscleIntensity * k

\* A texture is generated at muscle 31 with the muscle intensity at 100: the
\* term is 31 * 100 * 30 on the chest and zero outside the regions.
C20_Witness ==
    \E i \in DOMAIN texRuns :
        /\ texRuns[i].inputs.muscle = 31
        /\ texRuns[i].inputs.muscleIntensity = 100
        /\ muscleDefinition(texRuns[i].inputs, PixelSamples[1]) = 31 * 100 * 30
        /\ muscleDefinition(texRuns[i].inputs, PixelSamples[4]) = 0
        /\ imageData # <<>>

(***************************************************************************)
(* The display mode of ImprovedAvatar3D                                    *)
(***************************************************************************)
DisplayNext ==
    \/ \E gl \in {"null", "throws"} : BrowserEnvironment(gl)
    \/ OnAuthStateChanged("u1")
    \/ WebGLProbeEffect
    \/ HandleCanvasError
    \/ \E message \in ErrorMessages : WindowError(message)
    \/ EditorShown /\ \E value \in {170, 210} : UpdateSetting("height", value)
    \/ EditorShown /\ \E value \in {0, 100} : UpdateSetting("muscle", value)

SpecDisplay == Init /\ [][DisplayNext]_vars

\* C21: while the editor is shown, where WebGL is unavailable (getContext
\* returns null or throws) or a render error has been recorded the component
\* shows the 2D fallback; it shows the 3D canvas only where WebGL is available
\* and no render error is recorded.
C21_DisplayFollowsProbe ==
    EditorShown =>
        /\ (webgl # "context" \/ renderError # Null) => DisplayMode = "Avatar2DFallback"
        /\ DisplayMode = "Canvas" => (webgl = "context" /\ renderError = Null)

(***************************************************************************)
(* The preset catalogs                                                     *)
(***************************************************************************)
PresetValues(key) ==
    CASE key = "gender" -> Genders
      [] key = "muscle" -> {0, 100}
      [] key = "height" -> {170}
      [] key = "hairStyle" -> {4}

PresetsNext ==
    \/ OnAuthStateChanged("u1")
    \/ EditorShown /\ \E key \in {"gender", "muscle", "height", "hairStyle"} :
                          \E value \in PresetValues(key) : UpdateSetting(key, value)
    \/ EditorShown /\ \E name \in DOMAIN AvatarPresetCatalog : ClickPreset(name)
    \/ EditorShown /\ \E id \in DOMAIN BodyPresetCatalog : ClickBodyPreset(id)
    \/ EditorShown /\ ResetToDefaults

SpecPresets == Init /\ [][PresetsNext]_vars

GenProgress ==
    \/ GenTimerFires
    \/ \E i \in DOMAIN genRuns :
          \/ GenerateAvatarStep(i)
          \/ GenerateAvatarFinalize(i)
          \/ GenerateAvatarMe(i)
          \/ \E saved \in BOOLEAN : GenerateAvatarNotify(i, saved)

SpecGenLive == Init /\ [][GenNext]_vars /\ WF_vars(GenProgress)

\* C23: with the timers firing and the runs resumed, from some point on the
\* avatar last generated for the shown editor is one generated from the latest
\* muscle and bodyFat (its URL carries them), whether or not the last change
\* arrived while a generation was in flight.  Behaviours that use up the
\* generations a behaviour may start, or that end with a failed run, are left
\* out.
C23_AutoGenerationFollows ==
    <>[]((EditorShown /\ genStarted < MaxGenerations /\ genError = Null) =>
            /\ generatedAvatarUrl # None
            /\ generatedAvatarUrl.muscleDefinition = Live.muscle
            /\ generatedAvatarUrl.bodyFat = Live.bodyFat)

\* C24: when a generation run fails, the step that run was processing, and no
\* other step, becomes 'error', the error message is set, onAvatarGenerated
\* is not called and isGenerating is false.
C24_FailureMarksStep ==
    [][\A i \in DOMAIN genRuns :
          GenerateAvatarThrows(i) =>
              /\ steps' = UpdateStepStatus(steps, genRuns[i].pc, "error")
              /\ genError' # Null
              /\ UNCHANGED <<generatedAvatarUrl, generatedAvatarId>>
              /\ isGenerating' = FALSE
      ]_vars

\* ReadyPlayerMeAPI for one user, with the muscle slider and the photo upload.
GenSaveNext ==
    \/ OnAuthStateChanged("u1")
    \/ EditorShown /\ UpdateSetting("muscle", 100)
    \/ EditorShown /\ HandlePhotoUpload
    \/ ClickGenerate
    \/ GenTimerFires
    \/ \E i \in DOMAIN genRuns : GenerateAvatarStep(i)
    \/ \E i \in DOMAIN genRuns : GenerateAvatarFinalize(i)
    \/ \E i \in DOMAIN genRuns : GenerateAvatarMe(i)
    \/ \E i \in DOMAIN genRuns : \E saved \in BOOLEAN : GenerateAvatarNotify(i, saved)

SpecGenSave == Init /\ [][GenSaveNext]_vars

\* C25: when the save of a generated avatar fails (blink.auth.me() or
\* enhancedAvatars.create throws), the run leaves the steps, the error and
\* avatarId/avatarUrl as they are, calls onAvatarGenerated with its URL and id,
\* ends (so it calls it once) and sets isGenerating to false; for a run that is
\* the only one started, the five steps are 'completed', the error is null and
\* avatarId/avatarUrl are the run's.
C25_SaveFailureIsNotFatal ==
    [][\A i \in DOMAIN genRuns :
          GenerateAvatarNotify(i, FALSE) =>
              /\ UNCHANGED <<steps, genError, avatarId, avatarUrl, enhancedAvatars>>
              /\ generatedAvatarUrl' = GeneratedAvatarUrl(genRuns[i])
              /\ generatedAvatarId' = genRuns[i].id
              /\ isGenerating' = FALSE
              /\ \A j \in DOMAIN genRuns' : genRuns'[j].id # genRuns[i].id
              /\ genStarted = 1 =>
                    /\ \A s \in DOMAIN steps' : steps'[s] = "completed"
                    /\ genError' = Null
                    /\ avatarId' = genRuns[i].id
                    /\ avatarUrl' = generatedAvatarUrl'
      ]_vars

\* The only run started has handed its avatar to the parent although nothing
\* was saved.
C25_Witness ==
    /\ lastOp = <<"onAvatarGenerated">>
    /\ genStarted = 1
    /\ enhancedAvatars = {}
    /\ generatedAvatarId = 1
    /\ generatedAvatarUrl = avatarUrl
    /\ \A s \in DOMAIN steps : steps[s] = "completed"
    /\ genError = Null
    /\ ~isGenerating

\* C26: a saveAvatar with a non-blank name goes to create when no avatar is
\* current and to update of the current avatar otherwise; when the create
\* returns there is exactly one new record, under an id no record had, no
\* other record has changed and currentAvatarId is the new id; when the update
\* returns no record has been created and only the record of that id has
\* changed.  loadAvatar makes an avatar current and resetToDefaults makes none
\* current, so a save after a load adds no record and a save after a reset
\* overwrites none.
C26_SaveCreatesOrUpdates ==
    [][/\ SaveAvatarStart =>
            LET task == tasks'[Len(tasks')]
            IN  /\ Trim(avatarName) # <<>>
                /\ task.pc = "create" <=> currentAvatarId = NoId
                /\ task.pc = "update" <=> currentAvatarId # NoId
                /\ task.pc = "update" => task.data.id = currentAvatarId
                /\ store' = store
       /\ \A i \in DOMAIN tasks :
            /\ CreateReturns(i) =>
                  /\ tasks[i].current = NoId
                  /\ store \subseteq store'
                  /\ Cardinality(store') = Cardinality(store) + 1
                  /\ \A r \in store : r.id # tasks[i].data.id
                  /\ \E r \in store' \ store : r.id = currentAvatarId'
            /\ UpdateReturns(i) =>
                  /\ tasks[i].current # NoId
                  /\ Cardinality(store') = Cardinality(store)
                  /\ {r.id : r \in store'} = {r.id : r \in store}
                  /\ \A r \in store : r.id # tasks[i].current => r \in store'
                  /\ UNCHANGED currentAvatarId
       /\ \A i \in DOMAIN savedAvatars :
            LoadAvatar(i) => currentAvatarId' = savedAvatars[i].id /\ currentAvatarId' # NoId
       /\ ResetToDefaults => currentAvatarId' = NoId
      ]_vars

\* A save made after the load of the newest saved avatar, under a new name,
\* has updated that avatar's record and added none.
C26_Witness ==
    /\ lastOp = <<"updateReturns">>
    /\ currentAvatarId = 10
    /\ Cardinality(store) = Cardinality(InitialStore)
    /\ \E r \in store : r.id = 10 /\ r.name = <<"B">>
    /\ \A r \in InitialStore : r.id # 10 => r \in store

NoNoise == [i \in DOMAIN PixelSamples |-> 0]

TexRunsNext ==
    \/ lastOp = <<"construct">> /\ OnAuthStateChanged("u1")
    \/ EditorShown /\ UpdateSetting("muscle", 61)
    \/ \E slider \in {"muscleIntensity", "skinDetail"} : OnTuningChange(slider, 100)
    \/ texStarted < MaxTexRuns /\ TexTimerFires(NoNoise)
    \/ texStarted < MaxTexRuns /\ ClickGenerateTexture(NoNoise)
    \/ \E i \in DOMAIN texRuns : ToBlobCallback(i)
    \/ \E i \in DOMAIN texRuns : GenerateEnhancedTextureFinish(i)

SpecTexRuns == Init /\ [][TexRunsNext]_vars

\* C28: isGenerating is true in every state in which a generation run has
\* started and has not reached the end of its finally block, whatever the
\* order of the settings and tuning changes, the timer and the button.  (The
\* component holds one timer, which the effect's cleanup clears before the
\* effect sets the next.)
C28_GeneratingWhileRunning ==
    (\E i \in DOMAIN texRuns : texRuns[i].sleeping) => texGenerating

\* C29: whenever no handler is awaiting the store, currentAvatarId is null or
\* the id of a record the store holds, whatever the order of the saves, loads,
\* deletes and resets, a load made while a delete of the same avatar awaits the
\* store included.
C29_CurrentAvatarStored ==
    tasks = <<>> =>
        \/ currentAvatarId = NoId
        \/ \E r \in store : r.id = currentAvatarId

\* C30: once an upload attempt has ended, isUploading is false, the
\* progress interval uploadModel started is stopped, and uploadProgress does
\* not change until the next attempt starts.
C30_ProgressStillAfterUpload ==
    /\ [](UploadsInFlight = {} => ~isUploading)
    /\ [](\A i \in DOMAIN uploadRuns :
            uploadRuns[i].pc = "ended" => ~uploadRuns[i].interval)
    /\ [][(UploadsInFlight = {} /\ ~isUploading')
            => uploadProgress' = uploadProgress]_vars

====
